---- MODULE Spec2Model ----
(***************************************************************************)
(* Model of the bevy_imposter bake orchestrator (src/src/bake.rs): the     *)
(* per-frame extract / render-graph / cleanup cycle of the render world,   *)
(* the main-world drain of the completion channel, and the detached        *)
(* readback task that runs the completion callback.                        *)
(***************************************************************************)
EXTENDS Integers, Sequences, FiniteSets, TLC

\* ------------------------------------------------------------------ bounds
\* grid_size ranges over 1..MaxGrid
MaxGrid == 2
\* max_tiles_per_frame ranges over 0..MaxTilesPerFrame
MaxTilesPerFrame == 2
\* the expected render count ranges over 0..MaxDraws
MaxDraws == 1
\* the host removes at most MaxDespawns sessions
MaxDespawns == 1

\* bake camera entities, and the callback handles set_callback can create
Cams == {1, 2}
Callbacks == {"cbA", "cbB"}
None == "None"

\* crossbeam_channel::bounded(2)
Capacity == 2

\* BakeState
BakeState == {"Rendering", "RunningCallback", "Finished"}

\* values of ImposterBakeCamera::multisample the node distinguishes (1 / not 1)
Multisamples == {1, 2}

VARIABLES
    camera,         \* main world: ImposterBakeCamera component of each entity
    alive,          \* main world: entities that exist
    despawned,      \* number of entities the host has removed
    channel,        \* ImposterBakeCompleteChannel: queue + whether the receiver lives
    mainDone,       \* main world finished its update for this frame
    renderPc,       \* render world position in the frame
    extracted,      \* render world: ExtractedImposterBakeCamera::callback of each entity
                    \* that holds the component
    ran,            \* entities whose bake node has run in this frame
    sending,        \* the command task that has reached its channel send
    part_baked,     \* PartBaked map
    pipelineReady,  \* PipelineCache holds the blit pipeline
    atlas,          \* tiles written into the output texture since its last clear
    targetImage,    \* tiles held by the camera's target texture
    completed,      \* the most recent command task of the entity filled the grid
    baked,          \* ImpostersBaked queue
    callbackCell,   \* Arc<Mutex<Option<Box<FnOnce>>>>: TRUE while it holds Some
    task,           \* detached readback task per callback taken
    fired,          \* number of invocations of each callback
    last,           \* what the step just taken did, when it was a step of the bake node
    calc            \* the call of a function of the asset codec or of the readback
                    \* that is under way, with its arguments and results

vars == <<camera, alive, despawned, channel, mainDone, renderPc, extracted, ran, sending,
          part_baked, pipelineReady, atlas, targetImage, completed, baked,
          callbackCell, task, fired, last, calc>>

Min(a, b) == IF a < b THEN a ELSE b

\* grid_size * grid_size, the number of subviews
Tiles(c) == camera[c].grid_size * camera[c].grid_size

\* ------------------------------------------------------------ configuration
\* manual_camera_transforms: Option<Vec<GlobalTransform>>, None as <<>> and Some(v)
\* as <<v.len()>>
ManualTransforms == {<<>>} \cup {<<n>> : n \in 0..(MaxGrid * MaxGrid)}

\* ImposterBakeCamera fields the bake reads; state starts Rendering
CameraConfigs ==
    [ grid_size : 1..MaxGrid,
      multisample : Multisamples,
      continuous : BOOLEAN,
      wait_for_render : BOOLEAN,
      max_tiles_per_frame : 0..MaxTilesPerFrame,
      callback : Callbacks \cup {None},
      target : BOOLEAN,
      manual_camera_transforms : ManualTransforms,
      state : {"Rendering"} ]

\* ImposterBakeCamera derives Clone: the second camera is a clone of the first, either
\* keeping the first one's callback handle or given a callback of its own by set_callback.
Clones ==
    { cfg \in { [c \in Cams |-> IF c = 1 THEN first ELSE [first EXCEPT !.callback = cb]] :
                  first \in CameraConfigs, cb \in Callbacks \cup {None} } :
        /\ cfg[1].callback \in {None, "cbA"}
        /\ cfg[1].callback = None => cfg[2].callback = None
        /\ cfg[1].callback = "cbA" => cfg[2].callback \in {"cbA", "cbB"} }

\* Manual transforms are explored on a camera alone that stops after one snapshot, with
\* no callback, no target and without waiting for tile 0.
ManualScene(cfg) ==
    /\ cfg[1].callback = None
    /\ ~cfg[1].continuous
    /\ ~cfg[1].target
    /\ ~cfg[1].wait_for_render

\* The scenes explored. One camera alone takes every configuration. Two cameras are
\* explored where sessions can affect each other, through a callback handle: both
\* stop after one snapshot, with no target and without waiting for tile 0.
TwoCameras(cfg) ==
    /\ cfg[1].callback # None
    /\ ~cfg[1].continuous
    /\ ~cfg[1].target
    /\ ~cfg[1].wait_for_render

NoTask == [pc |-> "none", cam |-> 0, events |-> <<>>]
NotSending == [cam |-> 0, msg |-> None, target |-> FALSE]
NoCalc == [op |-> "none"]
NoStep == [op |-> "none", cam |-> 0, start |-> 0, rendered |-> 0, checked |-> FALSE,
           actual |-> 0, expected |-> 0, sent |-> None, copied |-> FALSE]

\* HashMap, or a component of the render world: a function over the entities that
\* have an entry
NoEntries == [c \in {} |-> 0]
Has(map, c) == c \in DOMAIN map
Insert(map, c, v) == [d \in DOMAIN map \cup {c} |-> IF d = c THEN v ELSE map[d]]
Remove(map, c) == [d \in DOMAIN map \ {c} |-> map[d]]
\* variant: retain keeps every entry
Retain_keepsAll(map, keep) == map
Retain(map, keep) == [d \in DOMAIN map \cap keep |-> map[d]]

Init ==
    /\ camera \in Clones
    /\ alive \in {{1}, Cams}
    /\ alive = {1} => camera[2] = camera[1]
    /\ alive = Cams => TwoCameras(camera)
    /\ camera[1].manual_camera_transforms # <<>> => alive = {1} /\ ManualScene(camera)
    /\ despawned = 0
    /\ channel = [c \in Cams |-> [queue |-> <<>>, receiver |-> c \in alive]]
    /\ mainDone = FALSE
    /\ renderPc = "done"
    /\ extracted = NoEntries
    /\ ran = {}
    /\ sending = NotSending
    /\ part_baked = NoEntries
    /\ pipelineReady = FALSE
    /\ atlas = [c \in Cams |-> {}]
    /\ targetImage = [c \in Cams |-> {}]
    /\ completed = [c \in Cams |-> FALSE]
    /\ baked = <<>>
    /\ callbackCell = [cb \in Callbacks |-> TRUE]
    /\ task = [cb \in Callbacks |-> NoTask]
    /\ fired = [cb \in Callbacks |-> 0]
    /\ last = NoStep
    /\ calc = NoCalc

\* ------------------------------------------------------------- main world
RECURSIVE Drain(_, _)
\* cam.state after `cam.state = new_state` for every message received, in order
Drain(q, s) == IF q = <<>> THEN s ELSE Drain(Tail(q), Head(q))

\* a Finished among the received messages removes the channel component
GotFinished(q) == \E i \in 1..Len(q) : q[i] = "Finished"

\* the cameras the queries of check_finished_cameras and extract_imposter_cameras match
WithChannel(c) == c \in alive /\ channel[c].receiver

\* variant: the state is written for continuous cameras too
Receives_all(c) == WithChannel(c)

\* the cameras whose state check_finished_cameras writes: `if !cam.continuous`
Receives(c) == WithChannel(c) /\ ~camera[c].continuous

check_finished_cameras ==
    /\ ~mainDone
    /\ camera' = [c \in Cams |->
                    IF Receives(c)
                    THEN [camera[c] EXCEPT !.state = Drain(channel[c].queue, @)]
                    ELSE camera[c]]
    /\ channel' = [c \in Cams |->
                    IF WithChannel(c)
                    THEN [queue |-> <<>>,
                          receiver |-> ~(Receives(c) /\ GotFinished(channel[c].queue))]
                    ELSE channel[c]]
    /\ mainDone' = TRUE
    /\ last' = NoStep
    /\ UNCHANGED <<calc, alive, despawned, renderPc, extracted, ran, sending, part_baked,
                   pipelineReady, atlas, targetImage, completed, baked, callbackCell,
                   task, fired>>

\* the host removes the session's entity during the main world's update
Despawn(c) ==
    /\ ~mainDone
    /\ c \in alive
    /\ despawned < MaxDespawns
    /\ alive' = alive \ {c}
    /\ despawned' = despawned + 1
    /\ channel' = [channel EXCEPT ![c].receiver = FALSE]
    /\ last' = NoStep
    /\ UNCHANGED <<calc, camera, mainDone, renderPc, extracted, ran, sending, part_baked,
                   pipelineReady, atlas, targetImage, completed, baked, callbackCell,
                   task, fired>>

\* a handle no camera holds yet: set_callback wraps the closure in a new Arc
Fresh(cb) == \A c \in Cams : camera[c].callback # cb

\* The host calls ImposterBakeCamera::set_callback during the main world's update. The
\* render world sees the new handle at the next extraction only, so the call is placed
\* after the previous frame's cleanup.
set_callback(c, cb) ==
    /\ ~mainDone
    /\ renderPc = "done"
    /\ c \in alive
    /\ Fresh(cb)
    /\ camera' = [camera EXCEPT ![c].callback = cb]
    /\ last' = NoStep
    /\ UNCHANGED <<calc, alive, despawned, channel, mainDone, renderPc, extracted, ran, sending,
                   part_baked, pipelineReady, atlas, targetImage, completed, baked,
                   callbackCell, task, fired>>

\* ----------------------------------------------------------- render world
\* variant: extraction looks at the channel only, not at the camera's state
Extractable_channelOnly(c) ==
    /\ WithChannel(c)
    /\ channel[c].queue = <<>>

\* variant: extraction looks at the camera's state only, not at the channel
Extractable_stateOnly(c) ==
    /\ WithChannel(c)
    /\ camera[c].state = "Rendering"

\* the cameras extract_imposter_cameras does not `continue` past
Extractable(c) ==
    /\ WithChannel(c)
    /\ camera[c].state = "Rendering"
    /\ channel[c].queue = <<>>

\* building the subviews of camera c for index y * grid_size + x reaches
\* `.get(index).expect("not enough manual camera transforms")` on a None
NotEnoughTransforms(c) ==
    /\ camera[c].manual_camera_transforms # <<>>
    /\ \E index \in 0..(Tiles(c) - 1) : index >= camera[c].manual_camera_transforms[1]

\* The system panics inside the loop over the cameras, before its commands are applied:
\* the render world stops in this frame and the main world waits for it.
extract_imposter_cameras ==
    /\ mainDone
    /\ renderPc = "done"
    /\ LET entities == {c \in Cams : Extractable(c)} IN
         IF \E c \in entities : NotEnoughTransforms(c)
         THEN /\ renderPc' = "panicked"
              /\ UNCHANGED <<extracted, part_baked, mainDone>>
         ELSE /\ extracted' = [c \in entities |-> camera[c].callback]
              /\ part_baked' = Retain(part_baked, entities)
              /\ mainDone' = FALSE
              /\ renderPc' = "graph"
    /\ last' = NoStep
    /\ UNCHANGED <<calc, camera, alive, despawned, channel, ran, sending, pipelineReady, atlas,
                   targetImage, completed, baked, callbackCell, task, fired>>

\* the pipeline cache finishes compiling the blit pipeline
PipelineCompiled ==
    /\ ~pipelineReady
    /\ renderPc = "done"
    /\ pipelineReady' = TRUE
    /\ last' = NoStep
    /\ UNCHANGED <<calc, camera, alive, despawned, channel, mainDone, renderPc, extracted, ran,
                   sending, part_baked, atlas, targetImage, completed, baked,
                   callbackCell, task, fired>>

\* ImposterResources.target (prepare_imposter_textures): the camera's target handle
\* resolved against the GPU images prepared so far
ResolveTarget(c, gpuImage) == camera[c].target /\ gpuImage

\* `rendered` at the end of the single-pass branch (multisample == 1)
SinglePassRendered(start, actual, expected, wait, maxTiles, n) ==
    LET afterCheck == IF start = 0
                      THEN IF actual # expected /\ wait THEN 0 ELSE 1
                      ELSE start
        rest == IF afterCheck < n THEN n - afterCheck ELSE 0
    IN  IF afterCheck > 0 THEN afterCheck + Min(maxTiles, rest) ELSE afterCheck

\* variant: the resolve branch stops at an unready tile 0 whether or not it is to wait
MultiPassRendered_alwaysWaits(start, actual, expected, wait, maxTiles, n) ==
    LET rest == IF start < n THEN n - start ELSE 0
        count == Min(maxTiles, rest)
    IN  IF count = 0 THEN start
        ELSE IF start = 0 /\ actual # expected THEN 0
        ELSE start + count

\* variant: the resolve branch renders every remaining tile, without `take`
MultiPassRendered_noTake(start, actual, expected, wait, maxTiles, n) ==
    LET rest == IF start < n THEN n - start ELSE 0
    IN  IF rest = 0 \/ maxTiles = 0 THEN start
        ELSE IF start = 0 /\ actual # expected /\ wait THEN 0
        ELSE start + rest

\* `rendered` at the end of the resolve branch (multisample > 1)
MultiPassRendered(start, actual, expected, wait, maxTiles, n) ==
    LET rest == IF start < n THEN n - start ELSE 0
        count == Min(maxTiles, rest)
    IN  IF count = 0 THEN start
        ELSE IF start = 0 /\ actual # expected /\ wait THEN 0
        ELSE start + count

Rendered(c, start, actual, expected) ==
    IF camera[c].multisample = 1
    THEN SinglePassRendered(start, actual, expected, camera[c].wait_for_render,
                            camera[c].max_tiles_per_frame, Tiles(c))
    ELSE MultiPassRendered(start, actual, expected, camera[c].wait_for_render,
                           camera[c].max_tiles_per_frame, Tiles(c))

\* whether the command task reads the actual draw count of tile 0 in this frame
Checks(c, start) ==
    /\ start = 0
    /\ camera[c].multisample = 1 \/ Min(camera[c].max_tiles_per_frame, Tiles(c)) > 0

\* the output texture after the task's passes: the first get_attachment of a frame clears
AtlasAfter(c, old, start, end) ==
    IF camera[c].multisample = 1
    THEN (IF start = 0 THEN {0} ELSE old) \cup start..(end - 1)
    ELSE IF end > start
         THEN (IF start = 0 THEN {} ELSE old) \cup start..(end - 1)
         ELSE old

RECURSIVE subviews_columnMajor(_, _, _)
\* variant: the loop over x is the outer one
subviews_columnMajor(grid_size, x, y) ==
    IF x = grid_size THEN <<>>
    ELSE IF y = grid_size THEN subviews_columnMajor(grid_size, x + 1, 0)
    ELSE <<[x |-> x, y |-> y]>> \o subviews_columnMajor(grid_size, x, y + 1)

RECURSIVE subviews(_, _, _)
\* ExtractedImposterBakeCamera::subviews as pushed from (x, y) on by
\* `for y in 0..grid_size { for x in 0..grid_size { .. subviews.push((x, y, id)) } }`
subviews(grid_size, x, y) ==
    IF y = grid_size THEN <<>>
    ELSE IF x = grid_size THEN subviews(grid_size, 0, y + 1)
    ELSE <<[x |-> x, y |-> y]>> \o subviews(grid_size, x + 1, y)

\* the pixels of set_viewport(x * tile_size, y * tile_size, tile_size, tile_size)
Viewport(x, y, tile_size) ==
    { <<px, py>> : px \in (x * tile_size)..(x * tile_size + tile_size - 1),
                   py \in (y * tile_size)..(y * tile_size + tile_size - 1) }

\* the viewport tile i is drawn into: the single pass draws subview 0 into
\* (0, 0, tile_size, tile_size) for its check, every other tile goes to its (x, y)
TileViewport(multisample, views, i, tile_size) ==
    IF multisample = 1 /\ i = 0
    THEN Viewport(0, 0, tile_size)
    ELSE Viewport(views[i + 1].x, views[i + 1].y, tile_size)

\* variant: the task reports Finished at once, callback or not
CompletionState_finished(c) == "Finished"

\* what the task reports when the grid is full
CompletionState(c) ==
    IF extracted[c] # None THEN "RunningCallback" ELSE "Finished"

\* variant: the grid counts as full after one row
GridDone_oneRow(c, rendered) == rendered = camera[c].grid_size

\* the grid is full: rendered as u32 == grid_size * grid_size
GridDone(c, rendered) == rendered = Tiles(c)

\* the node returns before adding its command task
NodeReturnsEarly == ~pipelineReady

\* ImposterBakeNode::run and its command task up to the channel send; the tasks of
\* different cameras exclude each other through ImposterActualRenderCount's lock
ImposterBakeNode_run(c) ==
    /\ renderPc = "graph"
    /\ Has(extracted, c)
    /\ c \notin ran
    /\ sending = NotSending
    /\ ran' = ran \cup {c}
    /\ LET start == IF Has(part_baked, c) THEN part_baked[c] ELSE 0 IN
       IF NodeReturnsEarly
       THEN /\ last' = [NoStep EXCEPT !.op = "skip", !.cam = c, !.start = start,
                                      !.rendered = start]
            /\ UNCHANGED <<part_baked, atlas, completed, sending>>
       ELSE     \E expected \in (IF Checks(c, start) THEN 0..MaxDraws ELSE {0}) :
                \E actual \in 0..expected :
                  LET rendered == Rendered(c, start, actual, expected) IN
                  \E gpuImage \in (IF GridDone(c, rendered) /\ camera[c].target
                                   THEN BOOLEAN ELSE {FALSE}) :
                  /\ part_baked' = IF GridDone(c, rendered)
                                   THEN Remove(part_baked, c)
                                   ELSE Insert(part_baked, c, rendered)
                  /\ atlas' = [atlas EXCEPT ![c] = AtlasAfter(c, @, start, rendered)]
                  /\ completed' = [completed EXCEPT ![c] = (rendered = Tiles(c))]
                  /\ sending' = IF GridDone(c, rendered)
                                THEN [cam |-> c, msg |-> CompletionState(c),
                                      target |-> ResolveTarget(c, gpuImage)]
                                ELSE NotSending
                  /\ last' = [op |-> "run", cam |-> c, start |-> start,
                              rendered |-> rendered, checked |-> Checks(c, start),
                              actual |-> actual, expected |-> expected,
                              sent |-> None, copied |-> FALSE]
    /\ UNCHANGED <<calc, camera, alive, despawned, channel, mainDone, renderPc, extracted,
                   pipelineReady, targetImage, baked, callbackCell, task, fired>>

\* variant: a state sent to a torn-down session is queued all the same
Send_always(c, msg) == [channel EXCEPT ![c].queue = Append(@, msg)]

\* Sender::send on the bounded channel: blocks while full, Err once disconnected
CanSend(c) == ~channel[c].receiver \/ Len(channel[c].queue) < Capacity
Send(c, msg) ==
    IF channel[c].receiver
    THEN [channel EXCEPT ![c].queue = Append(@, msg)]
    ELSE channel

\* the rest of the command task of a full grid: report on the channel, queue the
\* readback when a callback is set, copy the atlas to the target
ImposterBakeNode_send(c) ==
    /\ renderPc = "graph"
    /\ sending.cam = c
    /\ CanSend(c)
    /\ channel' = Send(c, sending.msg)
    /\ baked' = IF extracted[c] # None
                THEN Append(baked, [cam |-> c, callback |-> extracted[c],
                                    reported |-> sending.msg])
                ELSE baked
    /\ targetImage' = IF sending.target
                      THEN [targetImage EXCEPT ![c] = atlas[c]]
                      ELSE targetImage
    /\ sending' = NotSending
    /\ last' = [NoStep EXCEPT !.op = "send", !.cam = c, !.sent = sending.msg,
                              !.copied = sending.target]
    /\ UNCHANGED <<calc, camera, alive, despawned, mainDone, renderPc, extracted, ran,
                   part_baked, pipelineReady, atlas, completed, callbackCell, task, fired>>

\* variant: the callback is read out of the cell without emptying it
Take_kept(cell, cb) == TRUE

\* callback.lock().unwrap().take(): Some only the first time
Take(cell, cb) == cell[cb]

RECURSIVE CopyBack(_, _, _)
\* copy_back's loop over the ImpostersBaked queue: takes callbacks and spawns tasks
CopyBack(q, cell, t) ==
    IF q = <<>> THEN [cell |-> cell, task |-> t]
    ELSE LET item == Head(q) IN
         IF Take(cell, item.callback)
         THEN CopyBack(Tail(q),
                       [cell EXCEPT ![item.callback] = FALSE],
                       [t EXCEPT ![item.callback] =
                            [pc |-> "map_async", cam |-> item.cam,
                             events |-> <<item.reported>>]])
         ELSE CopyBack(Tail(q), cell, t)

\* every node of the graph has run and no command task is still blocked
GraphDone == DOMAIN extracted \subseteq ran /\ sending = NotSending

\* RenderSet::Cleanup: copy_back, then the render world's entities are cleared
copy_back ==
    /\ renderPc = "graph"
    /\ GraphDone
    /\ LET r == CopyBack(baked, callbackCell, task) IN
         /\ callbackCell' = r.cell
         /\ task' = r.task
    /\ baked' = <<>>
    /\ renderPc' = "done"
    /\ extracted' = NoEntries
    /\ ran' = {}
    /\ last' = NoStep
    /\ UNCHANGED <<calc, camera, alive, despawned, channel, mainDone, sending, part_baked,
                   pipelineReady, atlas, targetImage, completed, fired>>

\* --------------------------------------------------- detached readback task
\* rx.recv().await returns once the buffer is mapped; the task strips the padding and
\* enters (callback)(image)
readback(cb) ==
    /\ task[cb].pc = "map_async"
    /\ task' = [task EXCEPT ![cb] =
            [@ EXCEPT !.pc = "callback", !.events = @ \o <<"mapped", "invoked">>]]
    /\ fired' = [fired EXCEPT ![cb] = Min(@ + 1, 2)]
    /\ last' = NoStep
    /\ UNCHANGED <<calc, camera, alive, despawned, channel, mainDone, renderPc, extracted, ran,
                   sending, part_baked, pipelineReady, atlas, targetImage, completed,
                   baked, callbackCell>>

\* (callback)(image) returns and the task sends Finished on the session's channel
finish(cb) ==
    /\ task[cb].pc = "callback"
    /\ CanSend(task[cb].cam)
    /\ task' = [task EXCEPT ![cb] =
            [@ EXCEPT !.pc = "done", !.events = @ \o <<"returned", "Finished">>]]
    /\ channel' = Send(task[cb].cam, "Finished")
    /\ last' = NoStep
    /\ UNCHANGED <<calc, camera, alive, despawned, mainDone, renderPc, extracted, ran, sending,
                   part_baked, pipelineReady, atlas, targetImage, completed, baked,
                   callbackCell, fired>>

Next ==
    \/ check_finished_cameras
    \/ \E c \in Cams : Despawn(c)
    \/ \E c \in Cams, cb \in Callbacks : set_callback(c, cb)
    \/ extract_imposter_cameras
    \/ PipelineCompiled
    \/ \E c \in Cams : ImposterBakeNode_run(c)
    \/ \E c \in Cams : ImposterBakeNode_send(c)
    \/ copy_back
    \/ \E cb \in Callbacks : readback(cb)
    \/ \E cb \in Callbacks : finish(cb)

Spec == Init /\ [][Next]_vars

TypeOK ==
    /\ renderPc \in {"done", "graph", "panicked"}
    /\ \A c \in Cams : camera[c].state \in BakeState
    /\ \A c \in Cams : Len(channel[c].queue) <= Capacity

\* ------------------------------------------------------------- liveness
\* the frame loop without the host's despawns
NextLive ==
    \/ check_finished_cameras
    \/ extract_imposter_cameras
    \/ PipelineCompiled
    \/ \E c \in Cams : ImposterBakeNode_run(c)
    \/ \E c \in Cams : ImposterBakeNode_send(c)
    \/ copy_back
    \/ \E cb \in Callbacks : readback(cb)
    \/ \E cb \in Callbacks : finish(cb)

\* a run of the bake node in which the readiness check, if made, passes
ReadyRun(c) ==
    /\ ImposterBakeNode_run(c)
    /\ last'.op = "run"
    /\ last'.checked => last'.actual = last'.expected

\* Both schedules keep running their systems, the pipeline cache finishes compiling,
\* readiness passes again and again, the mapping completes and the callback returns.
Fairness ==
    /\ WF_vars(check_finished_cameras)
    /\ WF_vars(extract_imposter_cameras)
    /\ SF_vars(PipelineCompiled)
    /\ \A c \in Cams : WF_vars(ImposterBakeNode_run(c))
    /\ \A c \in Cams : SF_vars(ReadyRun(c))
    /\ \A c \in Cams : WF_vars(ImposterBakeNode_send(c))
    /\ WF_vars(copy_back)
    /\ \A cb \in Callbacks : WF_vars(readback(cb))
    /\ \A cb \in Callbacks : WF_vars(finish(cb))

\* the sessions whose extraction does not panic
LiveInit == Init /\ \A c \in Cams : ~NotEnoughTransforms(c)

LiveSpec == LiveInit /\ [][NextLive]_vars /\ Fairness

\* ----------------------------------------------- readback of the atlas
\* image_size = tile_size * grid_size ranges over 1..MaxImageSize
MaxImageSize == 33

\* TextureFormat::Rg32Uint.pixel_size()
pixel_size == 8

\* wgpu::COPY_BYTES_PER_ROW_ALIGNMENT
COPY_BYTES_PER_ROW_ALIGNMENT == 256

\* the variables of the bake orchestrator
bakeVars == <<camera, alive, despawned, channel, mainDone, renderPc, extracted, ran,
              sending, part_baked, pipelineReady, atlas, targetImage, completed, baked,
              callbackCell, task, fired, last>>

\* no bake session exists while a function is studied on its own
NoSession ==
    /\ camera = [c \in Cams |->
                   [grid_size |-> 1, multisample |-> 1, continuous |-> FALSE,
                    wait_for_render |-> FALSE, max_tiles_per_frame |-> 0,
                    callback |-> None, target |-> FALSE,
                    manual_camera_transforms |-> <<>>, state |-> "Rendering"]]
    /\ alive = {}
    /\ despawned = 0
    /\ channel = [c \in Cams |-> [queue |-> <<>>, receiver |-> FALSE]]
    /\ mainDone = FALSE
    /\ renderPc = "done"
    /\ extracted = NoEntries
    /\ ran = {}
    /\ sending = NotSending
    /\ part_baked = NoEntries
    /\ pipelineReady = FALSE
    /\ atlas = [c \in Cams |-> {}]
    /\ targetImage = [c \in Cams |-> {}]
    /\ completed = [c \in Cams |-> FALSE]
    /\ baked = <<>>
    /\ callbackCell = [cb \in Callbacks |-> TRUE]
    /\ task = [cb \in Callbacks |-> NoTask]
    /\ fired = [cb \in Callbacks |-> 0]
    /\ last = NoStep

\* variant: rounds up to the next multiple, leaving an exact multiple as it is
align_byte_size_roundUp(value) ==
    ((value + COPY_BYTES_PER_ROW_ALIGNMENT - 1) \div COPY_BYTES_PER_ROW_ALIGNMENT)
        * COPY_BYTES_PER_ROW_ALIGNMENT

align_byte_size(value) ==
    value + (COPY_BYTES_PER_ROW_ALIGNMENT - (value % COPY_BYTES_PER_ROW_ALIGNMENT))

get_aligned_size(width, height, pixelSize) == height * align_byte_size(width * pixelSize)

\* variant: the stripping rounds the row length up to the next multiple of the alignment
buffered_row_bytes_roundUp(image_size) == align_byte_size_roundUp(image_size * pixel_size)

\* the row stride the stripping assumes
buffered_row_bytes(image_size) == align_byte_size(image_size * pixel_size)

\* the bytes of the output texture, row-major; each byte is named by its position
TextureBytes(image_size) == [i \in 1..(image_size * image_size * pixel_size) |-> i - 1]

\* copy_texture_to_buffer into a buffer of `size` bytes with the given bytes_per_row:
\* row r of the texture starts at r * bytes_per_row; the bytes between rows are not
\* written (shown as -1)
TextureToBuffer(image_size, size, bytes_per_row) ==
    LET texture == TextureBytes(image_size)
        row_bytes == image_size * pixel_size
    IN  [i \in 1..size |->
            LET r == (i - 1) \div bytes_per_row
                j == (i - 1) % bytes_per_row
            IN  IF j < row_bytes /\ r < image_size THEN texture[r * row_bytes + j + 1] ELSE -1]

\* <[u8]>::copy_within(src_start..src_end, dest), a memmove
copy_within(v, src_start, src_end, dest) ==
    SubSeq(v, 1, dest) \o SubSeq(v, src_start + 1, src_end)
        \o SubSeq(v, dest + (src_end - src_start) + 1, Len(v))

\* copy_within panics when the source or the destination range leaves the slice
CopyWithinInBounds(v, src_start, src_end, dest) ==
    src_end <= Len(v) /\ dest + (src_end - src_start) <= Len(v)

\* the command task creates the transfer buffer and records the copy of the output
\* texture into it
copy_texture_to_buffer ==
    /\ calc.op = "readback"
    /\ calc.pc = "texture"
    /\ LET size == get_aligned_size(calc.image_size, calc.image_size, pixel_size)
           bytes_per_row == get_aligned_size(calc.image_size, 1, pixel_size)
       IN  calc' = [calc EXCEPT !.pc = "mapped",
                                !.bytes_per_row = bytes_per_row,
                                !.result = TextureToBuffer(calc.image_size, size, bytes_per_row)]
    /\ UNCHANGED bakeVars

\* the detached task has the mapped bytes in `result` and decides whether to strip
strip_begin ==
    /\ calc.op = "readback"
    /\ calc.pc = "mapped"
    /\ calc' = IF Len(calc.result) # calc.image_size * calc.image_size * pixel_size
               THEN [calc EXCEPT !.pc = "rows",
                                 !.row = 1,
                                 !.take_offset = buffered_row_bytes(calc.image_size),
                                 !.place_offset = calc.image_size * pixel_size]
               ELSE [calc EXCEPT !.pc = "image"]
    /\ UNCHANGED bakeVars

\* one iteration of `for _ in 1..image_size`, or the truncate after the last one
strip_row ==
    /\ calc.op = "readback"
    /\ calc.pc = "rows"
    /\ LET stride == buffered_row_bytes(calc.image_size)
           initial_row_bytes == calc.image_size * pixel_size
       IN  IF calc.row < calc.image_size
           THEN IF CopyWithinInBounds(calc.result, calc.take_offset,
                                      calc.take_offset + stride, calc.place_offset)
                THEN calc' = [calc EXCEPT
                                !.result = copy_within(@, calc.take_offset,
                                                       calc.take_offset + stride,
                                                       calc.place_offset),
                                !.take_offset = @ + stride,
                                !.place_offset = @ + initial_row_bytes,
                                !.row = @ + 1]
                ELSE calc' = [calc EXCEPT !.pc = "panicked"]
           ELSE calc' = [calc EXCEPT
                           !.pc = "image",
                           !.result = SubSeq(@, 1, Min(Len(@),
                                                       initial_row_bytes * calc.image_size))]
    /\ UNCHANGED bakeVars

ReadbackInit ==
    /\ NoSession
    /\ \E image_size \in 1..MaxImageSize :
         calc = [op |-> "readback", pc |-> "texture", image_size |-> image_size,
                 bytes_per_row |-> 0, result |-> <<>>, row |-> 0,
                 take_offset |-> 0, place_offset |-> 0]

ReadbackNext == copy_texture_to_buffer \/ strip_begin \/ strip_row

ReadbackSpec == ReadbackInit /\ [][ReadbackNext]_vars

\* ------------------------------------------------------------ asset codec
\* tile_size ranges over 1..MaxTileSize, and grid_size over AssetGrids
MaxTileSize == 2
AssetGrids == {1, 2}

\* u32::to_le_bytes, u16::to_le_bytes and back
to_le_bytes_u32(v) ==
    <<v % 256, (v \div 256) % 256, (v \div 65536) % 256, (v \div 16777216) % 256>>
to_le_bytes_u16(v) == <<v % 256, (v \div 256) % 256>>
from_le_bytes(b) ==
    LET RECURSIVE value(_)
        value(i) == IF i > Len(b) THEN 0 ELSE b[i] + 256 * value(i + 1)
    IN  value(1)

\* an Rg32Uint pixel is a pair of u32 channels, stored as 8 bytes
PixelBytes(pixel) == to_le_bytes_u32(pixel[1]) \o to_le_bytes_u32(pixel[2])

Zero == <<0, 0>>
\* the pixel values of the images explored: empty, first channel only, second channel
\* only, and a value whose byte order differs from its numeric order
PixelValues == {Zero, <<1, 0>>, <<0, 1>>, <<256, 0>>}

\* bevy Image of format Rg32Uint: width, height and the bytes of the rows in order
NoImage == [width |-> 0, height |-> 0, data |-> <<>>]
RECURSIVE Flatten(_)
\* the pixels of an image, in order, as bytes
Flatten(pixels) ==
    IF pixels = <<>> THEN <<>> ELSE PixelBytes(Head(pixels)) \o Flatten(Tail(pixels))
ImageOf(width, height, pixels) ==
    [width |-> width, height |-> height, data |-> Flatten(pixels)]

\* the 8 bytes of the pixel at (x, y), and the whole image as pixels
PixelAt(image, x, y) == SubSeq(image.data, (y * image.width + x) * 8 + 1,
                               (y * image.width + x) * 8 + 8)

\* The images explored are those the bake hands to its callback, tile_size * grid_size
\* square, that are empty but for at most two pixels.
SquareImages(grid_size, tile_size) ==
    LET side == grid_size * tile_size
        n == side * side
        blank == [i \in 1..n |-> Zero]
    IN  { ImageOf(side, side, [[blank EXCEPT ![m[2]] = m[4]] EXCEPT ![m[1]] = m[3]]) :
            m \in { m \in (1..n) \X (1..n) \X PixelValues \X PixelValues :
                      /\ m[1] <= m[2]
                      /\ m[1] = m[2] => m[3] = m[4]
                      /\ m[4] = Zero => m[3] = Zero /\ m[1] = m[2] } }

\* bytemuck::cast_slice(&image.data): the k-th u32 of the data, k from 0
U32Len(image) == Len(image.data) \div 4
U32At(image, k) == from_le_bytes(SubSeq(image.data, 4 * k + 1, 4 * k + 4))

\* variant: a position is used when either channel of the pixel is non-zero
IsUsed_eitherChannel(image, x, y) ==
    \/ U32At(image, (y * image.width + x) * 2) # 0
    \/ U32At(image, (y * image.width + x) * 2 + 1) # 0

\* `data[(y * width + x) * 2] != 0`
IsUsed(image, x, y) == U32At(image, (y * image.width + x) * 2) # 0

NoPack == [outcome |-> "none", image |-> NoImage, offset |-> <<0, 0>>, size |-> <<0, 0>>]

\* variant: the end of the used range is taken one past its last entry
LastUsed_exclusive(used) ==
    IF used = {} THEN 0 ELSE (CHOOSE i \in used : \A j \in used : i >= j) + 1

\* first and last index of a used entry, `unwrap_or((0, &true)).0` when there is none
FirstUsed(used) == IF used = {} THEN 0 ELSE CHOOSE i \in used : \A j \in used : i <= j
LastUsed(used) == IF used = {} THEN 0 ELSE CHOOSE i \in used : \A j \in used : i >= j

\* pack_asset(grid_size, image). Indexing the data out of bounds panics; the scan
\* visits every (grid_x, grid_y, pix_x, pix_y), so one position out of bounds is enough.
pack_asset(grid_size, image) ==
    LET width == image.width
        pixels_per_tile == width \div grid_size
        tiles == 0..(grid_size - 1)
        inTile == 0..(pixels_per_tile - 1)
        scanInBounds ==
            \A grid_y \in tiles, pix_y \in inTile, grid_x \in tiles, pix_x \in inTile :
                ((grid_y * pixels_per_tile + pix_y) * width
                    + grid_x * pixels_per_tile + pix_x) * 2 < U32Len(image)
        used_x == { pix_x \in inTile : \E grid_x \in tiles, grid_y \in tiles, pix_y \in inTile :
                        IsUsed(image, grid_x * pixels_per_tile + pix_x,
                                      grid_y * pixels_per_tile + pix_y) }
        used_y == { pix_y \in inTile : \E grid_x \in tiles, grid_y \in tiles, pix_x \in inTile :
                        IsUsed(image, grid_x * pixels_per_tile + pix_x,
                                      grid_y * pixels_per_tile + pix_y) }
        x_start == FirstUsed(used_x)
        x_end == LastUsed(used_x)
        y_start == FirstUsed(used_y)
        y_end == LastUsed(used_y)
        x_count == x_end - x_start + 1
        y_count == y_end - y_start + 1
        new_width == x_count * grid_size
        new_height == y_count * grid_size
        \* the u32 index the copy reads for u32 k of the new data
        source(k) ==
            LET target_y == (k \div 2) \div new_width
                target_x == (k \div 2) % new_width
                grid_y == target_y \div y_count
                pix_y == target_y % y_count
                grid_x == target_x \div x_count
                pix_x == target_x % x_count
                source_x == grid_x * pixels_per_tile + x_start + pix_x
                source_y == grid_y * pixels_per_tile + y_start + pix_y
            IN  (source_y * width + source_x) * 2 + (k % 2)
        copyInBounds ==
            \A k \in 0..(new_width * new_height * 2 - 1) : source(k) < U32Len(image)
    IN  IF ~scanInBounds THEN [NoPack EXCEPT !.outcome = "panic"]
        ELSE IF x_count * y_count = 0 THEN [NoPack EXCEPT !.outcome = "exit"]
        ELSE IF ~copyInBounds THEN [NoPack EXCEPT !.outcome = "panic"]
        ELSE [outcome |-> "ok",
              image |-> [width |-> new_width, height |-> new_height,
                         data |-> [i \in 1..(new_width * new_height * 8) |->
                                     image.data[4 * source((i - 1) \div 4)
                                                + ((i - 1) % 4) + 1]]],
              offset |-> <<x_start, y_start>>,
              size |-> <<x_count, y_count>>]

\* --- text of settings.txt: a sequence of characters
DigitChars == <<"0", "1", "2", "3", "4", "5", "6", "7", "8", "9">>
IsDigit(ch) == \E d \in 1..10 : DigitChars[d] = ch
DigitValue(ch) == (CHOOSE d \in 1..10 : DigitChars[d] = ch) - 1

RECURSIVE FormatU32(_)
\* Display of an unsigned integer
FormatU32(n) ==
    IF n < 10 THEN <<DigitChars[n + 1]>>
    ELSE FormatU32(n \div 10) \o <<DigitChars[(n % 10) + 1]>>

\* The model checker's integers end at i32::MAX, so a u32 is held as an integer only
\* below 2^31, and 2^32 is never formed: the texts and products explored stay below
\* 2^31 or are told apart from 2^32 without being computed.
I32Max == 2147483647

\* the decimal digits of 2^32, one past u32::MAX
U32RangeDigits == <<"4", "2", "9", "4", "9", "6", "7", "2", "9", "6">>

\* str::parse::<u32>: one or more decimal digits of a value that fits u32; -1 stands
\* for Err
ParseU32(token) ==
    LET RECURSIVE value(_)
        value(i) == IF i = 0 THEN 0 ELSE 10 * value(i - 1) + DigitValue(token[i])
        \* the digits without their leading zeros
        RECURSIVE StripZeros(_)
        StripZeros(t) == IF Len(t) > 1 /\ t[1] = "0" THEN StripZeros(Tail(t)) ELSE t
        digits == StripZeros(token)
        \* digits of equal length: a >= b as numbers
        DigitsAtLeast(a, b) ==
            \/ a = b
            \/ \E i \in 1..Len(a) :
                  /\ DigitValue(a[i]) > DigitValue(b[i])
                  /\ \A j \in 1..(i - 1) : a[j] = b[j]
    IN  IF token = <<>> \/ \E i \in 1..Len(token) : ~IsDigit(token[i]) THEN -1
        ELSE IF Len(digits) > 10 THEN -1
        ELSE IF Len(digits) = 10 /\ DigitsAtLeast(digits, U32RangeDigits) THEN -1
        ELSE value(Len(token))

\* a * b on u32 does not fit u32 (a * b >= 2^32), for a and b below 2^31: with
\* b >= 3 that is a > floor((2^32 - 1) / b), and 2^32 - 1 = 2 * I32Max + 1
MulOverflows(a, b) ==
    LET q == I32Max \div b
        r == I32Max % b
        floor == 2 * q + (IF r >= b - r - 1 THEN 1 ELSE 0)
    IN  b >= 3 /\ a > floor

\* a * b >= limit, for a limit below 2^31, without forming the product
ProductAtLeast(a, b, limit) ==
    IF a = 0 \/ b = 0 THEN limit <= 0 ELSE a >= ((limit - 1) \div b) + 1

\* u32::wrapping_mul, the product in a build without overflow checks: the low 32 bits,
\* from the 16-bit halves of a and the two bytes of b's low half
wrapping_mul(a, b) ==
    LET ah == a \div 65536
        al == a % 65536
        bh == b \div 65536
        bl == b % 65536
        cross == (((ah * bl) % 65536) + ((al * bh) % 65536)) % 65536
        p1 == al * (bl \div 256)
        p0 == al * (bl % 256)
        low == (p1 % 256) * 256 + p0
        hi == (cross + (p1 \div 256) + (low \div 65536)) % 65536
    IN  hi * 65536 + (low % 65536)

\* The scales explored are the multiples of 1/4, exact in f32 and in decimal; a scale is
\* held as its number of quarters. Display of f32 prints the shortest decimal that
\* reads back to the same value: the integer part, then the fraction if there is one.
Scales == {1, 2, 3, 4, 6, 41, 400, 4001}
FormatF32(quarters) ==
    FormatU32(quarters \div 4) \o
        CASE quarters % 4 = 0 -> <<>>
          [] quarters % 4 = 1 -> <<".", "2", "5">>
          [] quarters % 4 = 2 -> <<".", "5">>
          [] quarters % 4 = 3 -> <<".", "7", "5">>

RECURSIVE Pow10(_)
Pow10(k) == IF k = 0 THEN 1 ELSE 10 * Pow10(k - 1)

\* str::parse::<f32> on `digits` or `digits.digits`; -1 stands for Err, and for a
\* value that is no multiple of 1/4
ParseF32(token) ==
    LET dots == {i \in 1..Len(token) : token[i] = "."}
        dot == IF dots = {} THEN Len(token) + 1 ELSE CHOOSE i \in dots : TRUE
        whole == ParseU32(SubSeq(token, 1, dot - 1))
        fraction == SubSeq(token, dot + 1, Len(token))
        numerator == IF fraction = <<>> THEN 0 ELSE ParseU32(fraction)
    IN  IF Cardinality(dots) > 1 \/ whole < 0 \/ numerator < 0 THEN -1
        ELSE IF (numerator * 4) % Pow10(Len(fraction)) # 0 THEN -1
        ELSE whole * 4 + (numerator * 4) \div Pow10(Len(fraction))

GridMode == {"Spherical", "Hemispherical", "Horizontal"}

\* variant: the writer spells every mode in lower case
ModeName_lowerCase(mode) ==
    CASE mode = "Spherical" -> <<"s", "p", "h", "e", "r", "i", "c", "a", "l">>
      [] mode = "Hemispherical" ->
            <<"h", "e", "m", "i", "s", "p", "h", "e", "r", "i", "c", "a", "l">>
      [] mode = "Horizontal" -> <<"h", "o", "r", "i", "z", "o", "n", "t", "a", "l">>

\* the word write_asset puts into the settings for a mode
ModeName(mode) ==
    CASE mode = "Spherical" -> <<"s", "p", "h", "e", "r", "i", "c", "a", "l">>
      [] mode = "Hemispherical" ->
            <<"h", "e", "m", "i", "s", "p", "h", "e", "r", "i", "c", "a", "l">>
      [] mode = "Horizontal" -> <<"H", "o", "r", "i", "z", "o", "n", "t", "a", "l">>

\* the match of the loader on the mode word; "bad mode" when no arm matches
ModeOfName(word) ==
    IF word = <<"s", "p", "h", "e", "r", "i", "c", "a", "l">> THEN "Spherical"
    ELSE IF word = <<"h", "e", "m", "i", "s", "p", "h", "e", "r", "i", "c", "a", "l">>
    THEN "Hemispherical"
    ELSE IF word = <<"H", "o", "r", "i", "z", "o", "n", "t", "a", "l">> THEN "Horizontal"
    ELSE "bad mode"

\* variant: the modes are numbered from 1
as_flags_fromOne(mode) ==
    CASE mode = "Spherical" -> 1 [] mode = "Hemispherical" -> 2 [] mode = "Horizontal" -> 3

\* GridMode::as_flags and GridMode::from_flags (flags & GRID_MASK)
as_flags(mode) ==
    CASE mode = "Spherical" -> 0 [] mode = "Hemispherical" -> 1 [] mode = "Horizontal" -> 2
from_flags(flags) ==
    CASE flags % 4 = 0 -> "Spherical"
      [] flags % 4 = 1 -> "Hemispherical"
      [] flags % 4 = 2 -> "Horizontal"
      [] flags % 4 = 3 -> "unreachable"

\* format!("{grid_size} {scale} {mode} {tile_size} {} {} {} {}", ...)
FormatSettings(grid_size, scale, mode, tile_size, packed_offset, packed_size) ==
    FormatU32(grid_size) \o <<" ">> \o FormatF32(scale) \o <<" ">> \o ModeName(mode)
        \o <<" ">> \o FormatU32(tile_size)
        \o <<" ">> \o FormatU32(packed_offset[1]) \o <<" ">> \o FormatU32(packed_offset[2])
        \o <<" ">> \o FormatU32(packed_size[1]) \o <<" ">> \o FormatU32(packed_size[2])

RECURSIVE Split(_)
\* str::split(' '): the pieces between the spaces, empty pieces included
Split(text) ==
    LET spaces == {i \in 1..Len(text) : text[i] = " "} IN
    IF spaces = {} THEN <<text>>
    ELSE LET first == CHOOSE i \in spaces : \A j \in spaces : i <= j
         IN  <<SubSeq(text, 1, first - 1)>> \o Split(SubSeq(text, first + 1, Len(text)))

\* --- PNG entries: an RGBA8 image of width x height holds width * height * 4 bytes
\* ImageBuffer::from_raw is None (and the unwrap panics) when the bytes are too few
FromRawFits(width, height, data) == Len(data) >= width * height * 4
\* write_to(.., Png) and decode().into_bytes(): the picture's bytes, losslessly
EncodePng(width, height, data) ==
    [width |-> width, height |-> height, bytes |-> SubSeq(data, 1, width * height * 4)]
DecodePng(png) == png.bytes

\* --- the palette
\* order of [u8; 8] in the BTreeSet: lexicographic on the bytes
LexLess(a, b) == \E i \in 1..8 : a[i] < b[i] /\ \A j \in 1..(i - 1) : a[j] = b[j]

\* image.data.chunks_exact(8) collected into the set
Chunks(image) == { SubSeq(image.data, 8 * k + 1, 8 * k + 8) :
                     k \in 0..((Len(image.data) \div 8) - 1) }

\* variant: the position of a pixel among the values in numeric order of its channels
LookupIndex_numeric(pixels, chunk) ==
    Cardinality({ other \in pixels :
        \/ from_le_bytes(SubSeq(other, 1, 4)) < from_le_bytes(SubSeq(chunk, 1, 4))
        \/ /\ from_le_bytes(SubSeq(other, 1, 4)) = from_le_bytes(SubSeq(chunk, 1, 4))
           /\ from_le_bytes(SubSeq(other, 5, 8)) < from_le_bytes(SubSeq(chunk, 5, 8)) })

\* pixel_lookup: the position of a pixel in the iteration order of the set
LookupIndex(pixels, chunk) == Cardinality({ other \in pixels : LexLess(other, chunk) })

\* variant: the set's values in descending order
PaletteBytes_descending(pixels) ==
    [i \in 1..(Cardinality(pixels) * 8) |->
        (CHOOSE chunk \in pixels :
            Cardinality({ other \in pixels : LexLess(chunk, other) }) = (i - 1) \div 8)
        [((i - 1) % 8) + 1]]

\* pixels.iter().copied().flatten(): the set's values in order, as bytes
PaletteBytes(pixels) ==
    [i \in 1..(Cardinality(pixels) * 8) |->
        (CHOOSE chunk \in pixels :
            Cardinality({ other \in pixels : LexLess(other, chunk) }) = (i - 1) \div 8)
        [((i - 1) % 8) + 1]]

\* `n as f32` for a u32 below 2^30: the nearest value with 24 significant bits, ties
\* to the even one
as_f32(n) ==
    LET RECURSIVE BitLen(_)
        BitLen(v) == IF v = 0 THEN 0 ELSE 1 + BitLen(v \div 2)
        Rounded(step) ==
            IF 2 * (n % step) > step \/ (2 * (n % step) = step /\ (n \div step) % 2 = 1)
            THEN (n \div step + 1) * step
            ELSE (n \div step) * step
    IN  IF n < 16777216 THEN n ELSE Rounded(2 ^ (BitLen(n) - 24))

\* (n as f32).sqrt().ceil() as u32: the square root is rounded to 24 bits before the
\* ceiling, so a root just above an integer s (by at most half a unit in the last place
\* of s) gives s
CeilSqrt(n) ==
    LET RECURSIVE BitLen(_)
        BitLen(v) == IF v = 0 THEN 0 ELSE 1 + BitLen(v \div 2)
        RECURSIVE Floor(_, _, _)
        Floor(f, lo, hi) == IF lo = hi THEN lo
                            ELSE IF ((lo + hi + 1) \div 2) * ((lo + hi + 1) \div 2) <= f
                            THEN Floor(f, (lo + hi + 1) \div 2, hi)
                            ELSE Floor(f, lo, (lo + hi + 1) \div 2 - 1)
        Ceil(f, s) == IF s * s = f THEN s
                      ELSE IF f - s * s <= s \div (2 ^ (24 - BitLen(s))) THEN s
                      ELSE s + 1
        Root(f) == Ceil(f, Floor(f, 0, Min(f, 32767)))
    IN  Root(as_f32(n))

\* (a as f32 / b as f32).ceil() as u32, for quotients below 2^24: the quotient is
\* rounded to 24 bits before the ceiling; NaN from 0.0 / 0.0 casts to 0
CeilDiv(a, b) ==
    LET RECURSIVE BitLen(_)
        BitLen(v) == IF v = 0 THEN 0 ELSE 1 + BitLen(v \div 2)
        Ceil(fb, m, rem, halfUlps) ==
            IF rem = 0 THEN m
            ELSE IF m > 0 /\ rem <= fb \div halfUlps /\ rem * halfUlps <= fb THEN m
            ELSE m + 1
        Quotient(fa, fb) == Ceil(fb, fa \div fb, fa % fb, 2 ^ (25 - BitLen(fa \div fb)))
    IN  IF b = 0 THEN 0 ELSE Quotient(as_f32(a), as_f32(b))

Zeros(n) == [i \in 1..n |-> 0]

\* Vec::insert(index, element)
InsertAt(v, index, element) ==
    SubSeq(v, 1, index) \o <<element>> \o SubSeq(v, index + 1, Len(v))

RECURSIVE PadLines(_, _, _, _)
\* `for i in 0..image.height()`: two zero bytes inserted after the indices of line i
PadLines(pixel_indices, i, width, height) ==
    IF i >= height THEN pixel_indices
    ELSE LET at == width * 2 + i * (width * 2 + 2)
         IN  PadLines(InsertAt(InsertAt(pixel_indices, at, 0), at, 0), i + 1, width, height)

\* base_pixel_count * if use_u16 { 2 } else { 4 }
IndexBytesCounted(image, use_u16) ==
    image.width * image.height * (IF use_u16 THEN 2 ELSE 4)

\* the names of a zip container and what each holds
NoFiles == [name \in {} |-> <<>>]

\* variant: two-byte indices for every palette below 131072 places
PaletteLayout_wide(count, image_width) ==
    LET pixels_x == CeilSqrt(count)
        pixels_y == CeilDiv(count, pixels_x)
        use_u16 == pixels_x * pixels_y < 131072
    IN  [pixels_x |-> pixels_x, pixels_y |-> pixels_y, use_u16 |-> use_u16,
         width |-> IF use_u16
                   THEN IF image_width % 2 = 1
                        THEN (image_width \div 2) + 1 ELSE image_width \div 2
                   ELSE image_width]

\* write_asset on pixels.len() distinct values and an image of image.width(): the
\* palette's dimensions, whether indices take two bytes, and the width of the index
\* image in four-byte pixels
PaletteLayout(count, image_width) ==
    LET pixels_x == CeilSqrt(count)
        pixels_y == CeilDiv(count, pixels_x)
        use_u16 == pixels_x * pixels_y < 65536
    IN  [pixels_x |-> pixels_x, pixels_y |-> pixels_y, use_u16 |-> use_u16,
         width |-> IF use_u16
                   THEN IF image_width % 2 = 1
                        THEN (image_width \div 2) + 1 ELSE image_width \div 2
                   ELSE image_width]

\* ImposterLoader::load on pixels_bytes.len() bytes of palette (a multiple of 8) and
\* size.x = packed_tile_size.x * grid_size: the same quantities as the loader has them
LoadedLayout(byte_len, size_x) ==
    LET pixels_x == CeilSqrt(byte_len \div 8)
        pixels_y == CeilDiv(byte_len, 8 * pixels_x)
        use_u16 == pixels_x * pixels_y < 65536
    IN  [pixels_x |-> pixels_x, pixels_y |-> pixels_y, use_u16 |-> use_u16,
         width |-> IF use_u16 THEN (size_x + 1) \div 2 ELSE size_x]

\* the `if index { .. }` block: the entries it writes, none when raw is at least as small
IndexedEntries(image, pixels, layout) ==
    LET pixels_x == layout.pixels_x
        pixels_y == layout.pixels_y
        unique_pixel_count == pixels_x * pixels_y
        use_u16 == layout.use_u16
        base_pixel_count == image.width * image.height
        total_index_size_bytes == unique_pixel_count * 8 + IndexBytesCounted(image, use_u16)
        base_size == base_pixel_count * 8
        pixel_data == LET set == PaletteBytes(pixels)
                      IN  set \o Zeros(IF pixels_x * pixels_y * 8 > Len(set)
                                       THEN pixels_x * pixels_y * 8 - Len(set) ELSE 0)
        plain == [i \in 1..(base_pixel_count * (IF use_u16 THEN 2 ELSE 4)) |->
                    LET size == IF use_u16 THEN 2 ELSE 4
                        index == LookupIndex(pixels, SubSeq(image.data,
                                                            8 * ((i - 1) \div size) + 1,
                                                            8 * ((i - 1) \div size) + 8))
                    IN  IF use_u16 THEN to_le_bytes_u16(index % 65536)[((i - 1) % size) + 1]
                        ELSE to_le_bytes_u32(index)[((i - 1) % size) + 1]]
        pixel_indices == IF use_u16 /\ image.width % 2 = 1
                         THEN PadLines(plain, 0, image.width, image.height)
                         ELSE plain
        width == layout.width
    IN  IF ~(total_index_size_bytes < base_size) THEN [outcome |-> "raw", files |-> NoFiles]
        ELSE IF ~FromRawFits(pixels_x * 2, pixels_y, pixel_data)
                \/ ~FromRawFits(width, image.height, pixel_indices)
        THEN [outcome |-> "panic", files |-> NoFiles]
        ELSE [outcome |-> "indexed",
              files |-> [name \in {"pixels.png", "indices.png"} |->
                           IF name = "pixels.png"
                           THEN EncodePng(pixels_x * 2, pixels_y, pixel_data)
                           ELSE EncodePng(width, image.height, pixel_indices)]]

\* a function extended by one entry: zip.start_file(name) and write_all
WithFile(files, name, content) ==
    [n \in DOMAIN files \cup {name} |-> IF n = name THEN content ELSE files[n]]

\* write_asset(path, scale, grid_size, tile_size, mode, image, pack, index): the
\* container written, how the call ended, and its local (image, packed_offset,
\* packed_size)
write_asset(scale, grid_size, tile_size, mode, image, pack, index) ==
    LET packed == IF pack THEN pack_asset(grid_size, image)
                  ELSE [outcome |-> "ok", image |-> image, offset |-> <<0, 0>>,
                        size |-> <<tile_size, tile_size>>]
        indexed == IF index
                   THEN IndexedEntries(packed.image, Chunks(packed.image),
                                       PaletteLayout(Cardinality(Chunks(packed.image)),
                                                     packed.image.width))
                   ELSE [outcome |-> "raw", files |-> NoFiles]
        pixelFiles == IF indexed.outcome = "indexed" THEN indexed.files
                      ELSE WithFile(NoFiles, "texture.png",
                                    EncodePng(packed.image.width * 2, packed.image.height,
                                              packed.image.data))
        settings == FormatSettings(grid_size, scale, mode, tile_size,
                                   packed.offset, packed.size)
    IN  IF packed.outcome # "ok"
        THEN [outcome |-> packed.outcome, files |-> NoFiles, packed |-> packed]
        ELSE IF indexed.outcome = "panic"
                \/ (indexed.outcome = "raw"
                    /\ ~FromRawFits(packed.image.width * 2, packed.image.height,
                                    packed.image.data))
        THEN [outcome |-> "panic", files |-> NoFiles, packed |-> packed]
        ELSE [outcome |-> "ok", files |-> WithFile(pixelFiles, "settings.txt", settings),
              packed |-> packed]

\* the bits of the flags word above the two of the grid mode
GRID_MASK == 3
VERTEX_BILLBOARD_FLAG == 4
USE_SOURCE_UV_Y_FLAG == 8
RENDER_MULTISAMPLE_FLAG == 16
INDEXED_FLAG == 32

RECURSIVE BitAnd(_, _)
\* a & b on u32
BitAnd(a, b) ==
    IF a = 0 \/ b = 0 THEN 0
    ELSE (IF a % 2 = 1 /\ b % 2 = 1 THEN 1 ELSE 0) + 2 * BitAnd(a \div 2, b \div 2)

\* ImposterLoaderSettings, and its Default: Billboard, no multisample, no source uv
LoaderSettings ==
    [vertex_mode : {"Billboard", "NoBillboard"}, multisample : BOOLEAN,
     use_source_uv_y : BOOLEAN]
DefaultLoaderSettings ==
    [vertex_mode |-> "Billboard", multisample |-> FALSE, use_source_uv_y |-> FALSE]

\* ImposterData::new: the flags word of the material data
ImposterData_new(mode, billboard_vertices, multisample, use_mesh_uv_y, indexed) ==
    [flags |-> as_flags(mode)
                 + (IF billboard_vertices THEN VERTEX_BILLBOARD_FLAG ELSE 0)
                 + (IF multisample THEN RENDER_MULTISAMPLE_FLAG ELSE 0)
                 + (IF use_mesh_uv_y THEN USE_SOURCE_UV_Y_FLAG ELSE 0)
                 + (IF indexed THEN INDEXED_FLAG ELSE 0)]

\* Imposter::specialize on the key made of the flags: the shader definitions pushed,
\* and the panic of the `_` arm of the grid mode match
specialize(flags) ==
    LET options ==
               (IF BitAnd(flags, RENDER_MULTISAMPLE_FLAG) # 0
                THEN {"MATERIAL_MULTISAMPLE"} ELSE {})
          \cup (IF BitAnd(flags, VERTEX_BILLBOARD_FLAG) # 0
                THEN {"VERTEX_BILLBOARD"} ELSE {})
          \cup (IF BitAnd(flags, USE_SOURCE_UV_Y_FLAG) # 0
                THEN {"USE_SOURCE_UV_Y"} ELSE {})
          \cup (IF BitAnd(flags, INDEXED_FLAG) # 0 THEN {"INDEXED_PIXELS"} ELSE {})
        i == BitAnd(flags, GRID_MASK)
    IN  IF i = as_flags("Hemispherical")
        THEN [outcome |-> "ok", shader_defs |-> options \cup {"GRID_HEMISPHERICAL"}]
        ELSE IF i = as_flags("Spherical")
        THEN [outcome |-> "ok", shader_defs |-> options \cup {"GRID_SPHERICAL"}]
        ELSE IF i = as_flags("Horizontal")
        THEN [outcome |-> "ok", shader_defs |-> options \cup {"GRID_HORIZONTAL"}]
        ELSE [outcome |-> "panic", shader_defs |-> {}]

NoAsset == [outcome |-> "none", grid_size |-> 0, scale |-> 0, flags |-> 0,
            base_tile_size |-> 0, packed_tile_offset |-> <<0, 0>>,
            packed_tile_size |-> <<0, 0>>, is_indexed |-> FALSE,
            pixels |-> NoImage, indices |-> NoImage]

\* ImposterLoader::load on the entries of a container: every `?` and bail! is the
\* outcome "error". The u32 products of the sizes wrap in a build without overflow
\* checks and panic in a build with them; they are computed before the mode is matched.
load(files, load_settings, overflow_checks) ==
    LET parts == Split(files["settings.txt"])
        grid_size == ParseU32(parts[1])
        scale == ParseF32(parts[2])
        mode == parts[3]
        base_tile_size == ParseU32(parts[4])
        packed_tile_offset == <<ParseU32(parts[5]), ParseU32(parts[6])>>
        packed_tile_size == <<ParseU32(parts[7]), ParseU32(parts[8])>>
        is_indexed == "pixels.png" \in DOMAIN files
        size == <<wrapping_mul(packed_tile_size[1], grid_size),
                  wrapping_mul(packed_tile_size[2], grid_size)>>
        pixels_bytes == DecodePng(files[IF is_indexed THEN "pixels.png" ELSE "texture.png"])
        layout == LoadedLayout(Len(pixels_bytes), size[1])
        pixels_x == layout.pixels_x
        pixels_y == layout.pixels_y
        use_u16 == layout.use_u16
        width == layout.width
        \* `packed_tile_size * grid_size`, and the products of vram_bytes:
        \* pixels_x * pixels_y * 8 + width * size.y * 4, or size.x * size.y * 8
        overflows ==
            \/ MulOverflows(packed_tile_size[1], grid_size)
            \/ MulOverflows(packed_tile_size[2], grid_size)
            \/ IF is_indexed
               THEN ProductAtLeast(width, size[2], 1073741824 - 2 * pixels_x * pixels_y)
               ELSE ProductAtLeast(size[1], size[2], 536870912)
        flags == (IF load_settings.vertex_mode = "Billboard" THEN 4 ELSE 0)
                     + (IF load_settings.multisample THEN RENDER_MULTISAMPLE_FLAG ELSE 0)
                     + (IF load_settings.use_source_uv_y THEN USE_SOURCE_UV_Y_FLAG ELSE 0)
                     + as_flags(ModeOfName(mode))
                     + (IF is_indexed THEN INDEXED_FLAG ELSE 0)
        failed == [NoAsset EXCEPT !.outcome = "error"]
    IN  IF "settings.txt" \notin DOMAIN files THEN failed
        ELSE IF Len(parts) < 8 THEN failed
        ELSE IF grid_size < 0 \/ scale < 0 \/ base_tile_size < 0
                \/ packed_tile_offset[1] < 0 \/ packed_tile_offset[2] < 0
                \/ packed_tile_size[1] < 0 \/ packed_tile_size[2] < 0 THEN failed
        ELSE IF is_indexed /\ "indices.png" \notin DOMAIN files THEN failed
        ELSE IF ~is_indexed /\ "texture.png" \notin DOMAIN files THEN failed
        ELSE IF overflows /\ overflow_checks THEN [NoAsset EXCEPT !.outcome = "panic"]
        ELSE IF ModeOfName(mode) = "bad mode" THEN failed
        ELSE [outcome |-> "ok", grid_size |-> grid_size, scale |-> scale, flags |-> flags,
              base_tile_size |-> base_tile_size,
              packed_tile_offset |-> packed_tile_offset,
              packed_tile_size |-> packed_tile_size,
              is_indexed |-> is_indexed,
              pixels |-> IF is_indexed
                         THEN [width |-> pixels_x, height |-> pixels_y, data |-> pixels_bytes]
                         ELSE [width |-> size[1], height |-> size[2], data |-> pixels_bytes],
              indices |-> IF is_indexed
                          THEN [width |-> width, height |-> size[2],
                                data |-> DecodePng(files["indices.png"])]
                          ELSE [width |-> 1, height |-> 1, data |-> <<0, 0, 0, 0>>]]

\* --- the calls explored
NoWrite == [outcome |-> "none", files |-> NoFiles, packed |-> NoPack]

\* a call of pack_asset or of write_asset, with its arguments and no result yet
Call(op, grid_size, tile_size, image, scale, mode, pack, index) ==
    [op |-> op, pc |-> "input", grid_size |-> grid_size, tile_size |-> tile_size,
     image |-> image, scale |-> scale, mode |-> mode, pack |-> pack, index |-> index,
     packed |-> NoPack, repacked |-> NoPack, written |-> NoWrite, loaded |-> NoAsset]

\* Every image of the grid sizes `grids` is packed and written in each of the four ways
\* with one scale and mode;
\* the images of one tile of 3 x 3 pixels, of odd width, are written indexed; every
\* scale and mode is written with the images of one tile of one pixel.
AssetCalls(grids) ==
    LET images == UNION { { [grid_size |-> g, tile_size |-> t, image |-> i] :
                              i \in SquareImages(g, t) } :
                          g \in grids, t \in 1..MaxTileSize }
        ways == {<<"pack", TRUE, FALSE>>} \cup ({"write"} \X BOOLEAN \X BOOLEAN)
    IN     { Call(way[1], a.grid_size, a.tile_size, a.image, 4, "Spherical", way[2], way[3]) :
               a \in images, way \in ways }
      \cup { Call("write", 1, 3, i, 4, "Spherical", pack, TRUE) :
               i \in SquareImages(1, 3), pack \in BOOLEAN }
      \cup { Call("write", 1, 1, i, scale, mode, pack, FALSE) :
               i \in SquareImages(1, 1), scale \in Scales, mode \in GridMode,
               pack \in BOOLEAN }

RECURSIVE Join(_)
\* the fields of a settings record with one space between them
Join(fields) ==
    IF fields = <<>> THEN <<>>
    ELSE IF Len(fields) = 1 THEN fields[1]
    ELSE fields[1] \o <<" ">> \o Join(Tail(fields))

\* the settings record of a raw container of one tile of one pixel
GoodFields == <<FormatU32(1), FormatF32(4), ModeName("Spherical"), FormatU32(1),
                FormatU32(0), FormatU32(0), FormatU32(1), FormatU32(1)>>

\* tokens that str::parse::<u32> rejects (the empty one and "x" are rejected by
\* str::parse::<f32> too), and words that no arm of the mode match accepts
BadU32Tokens == {<<>>, <<"x">>, <<"-", "1">>, <<"1", ".", "5">>, U32RangeDigits,
                 <<"0">> \o U32RangeDigits \o <<"0">>}
BadModeWords == {<<>>, <<"x">>, <<"S", "p", "h", "e", "r", "i", "c", "a", "l">>,
                 <<"h", "o", "r", "i", "z", "o", "n", "t", "a", "l">>}

\* a u32 whose product with itself does not fit u32
HalfRange == 65536

\* the settings records read from containers that write_asset did not write: the good
\* record in each mode and with a ninth field, its prefixes, the record with one field
\* replaced by a token that does not parse or by an unknown mode word, and records whose
\* sizes are large, with a known and with an unknown mode word
SettingsFields ==
       { [GoodFields EXCEPT ![3] = ModeName(mode)] : mode \in GridMode }
  \cup { GoodFields \o <<FormatU32(7)>> }
  \cup { SubSeq(GoodFields, 1, k) : k \in 0..7 }
  \cup { [GoodFields EXCEPT ![i] = token] : i \in {1, 4, 5, 6, 7, 8}, token \in BadU32Tokens }
  \cup { [GoodFields EXCEPT ![2] = token] : token \in {<<>>, <<"x">>} }
  \cup { [GoodFields EXCEPT ![3] = word] : word \in BadModeWords }
  \cup { [GoodFields EXCEPT ![1] = FormatU32(g), ![3] = word,
                            ![7] = FormatU32(x), ![8] = FormatU32(y)] :
            g \in {1, HalfRange}, x \in {1, HalfRange}, y \in {1, HalfRange},
            word \in {ModeName("Spherical"), <<"x">>} }

\* what each entry of those containers holds: one pixel, a palette of one value, and one
\* 2-byte index in a line padded to 4 bytes
EntryContent(name, fields) ==
    CASE name = "settings.txt" -> Join(fields)
      [] name = "texture.png" -> EncodePng(2, 1, PixelBytes(<<1, 0>>))
      [] name = "pixels.png" -> EncodePng(2, 1, PixelBytes(<<1, 0>>))
      [] name = "indices.png" -> EncodePng(1, 1, <<0, 0, 0, 0>>)

\* the containers: every set of entries with every settings record
Containers ==
    { [name \in names |-> EntryContent(name, fields)] :
        names \in SUBSET {"settings.txt", "texture.png", "pixels.png", "indices.png"}, fields \in SettingsFields }

\* indices.png as the writer lays it out for an image of width x height pixels that all
\* hold the 2-byte index v: lines of width indices, an odd width padded by two bytes
IndexLines(width, height, v) ==
    LET \* n copies of a run of bytes
        RECURSIVE Repeat(_, _)
        Repeat(bytes, n) == IF n = 0 THEN <<>> ELSE bytes \o Repeat(bytes, n - 1)
    IN
    EncodePng((width + 1) \div 2, height,
              Repeat(Repeat(to_le_bytes_u16(v), width)
                        \o (IF width % 2 = 1 THEN <<0, 0>> ELSE <<>>), height))

\* indexed containers of one tile with a palette of two values: the settings record
\* says packed_tile_size (x, y), the index image is that of a width x height image,
\* and every index is v
IndexedContainers ==
    { [name \in {"settings.txt", "pixels.png", "indices.png"} |->
         CASE name = "settings.txt" ->
                Join([GoodFields EXCEPT ![4] = FormatU32(2), ![7] = FormatU32(x),
                                        ![8] = FormatU32(y)])
           [] name = "pixels.png" ->
                EncodePng(4, 1, PixelBytes(<<1, 0>>) \o PixelBytes(<<256, 0>>))
           [] name = "indices.png" -> IndexLines(width, height, v)] :
        x \in 1..2, y \in 1..2, width \in 1..2, height \in 1..2, v \in 0..3 }

\* the raw and the indexed container of one pixel, in each mode
GoodContainers ==
    { [name \in names |-> EntryContent(name, [GoodFields EXCEPT ![3] = ModeName(mode)])] :
        names \in {{"settings.txt", "texture.png"},
                   {"settings.txt", "pixels.png", "indices.png"}},
        mode \in GridMode }

\* a load of a container by the asset server, in a build with or without overflow
\* checks: with the default settings, and the good containers with every setting
LoadCalls ==
    { [op |-> "load", pc |-> "input", files |-> call[1], load_settings |-> call[2],
       overflow_checks |-> overflow_checks, loaded |-> NoAsset,
       specialized |-> [outcome |-> "none", shader_defs |-> {}]] :
        call \in ((Containers \cup IndexedContainers) \X {DefaultLoaderSettings})
                    \cup (GoodContainers \X LoaderSettings),
        overflow_checks \in BOOLEAN }

\* a call of ImposterData::new, as the dynamic example makes it, with every option
NewCalls ==
    { [op |-> "new", pc |-> "input", mode |-> mode, billboard_vertices |-> options[1],
       multisample |-> options[2], use_mesh_uv_y |-> options[3], indexed |-> options[4],
       data |-> [flags |-> 0], specialized |-> [outcome |-> "none", shader_defs |-> {}]] :
        mode \in GridMode, options \in BOOLEAN \X BOOLEAN \X BOOLEAN \X BOOLEAN }

\* the numbers of distinct pixel values explored: the small ones, those around 65536
\* where the index width changes, and those around 2^24 where `as f32` starts to round
MaxPalette == 40
PaletteMargin == 300
F32Exact == 16777216
PaletteSizes ==
    1..MaxPalette
        \cup (HalfRange - PaletteMargin)..(HalfRange + PaletteMargin)
        \cup (F32Exact - PaletteMargin)..(F32Exact + PaletteMargin)

NoLayout == [pixels_x |-> 0, pixels_y |-> 0, use_u16 |-> FALSE, width |-> 0]

\* write_asset's indexed block on an image of packed_size.x * grid_size pixels a line
\* that holds `count` distinct values, then the load of what it stored
LayoutCalls ==
    [op : {"layout"}, pc : {"input"}, count : PaletteSizes, grid_size : AssetGrids,
     packed_size_x : 1..MaxTileSize, written : {NoLayout}, last_index : {0},
     palette_bytes : {0}, loaded : {NoLayout}]

AssetInit ==
    /\ NoSession
    /\ calc \in AssetCalls(AssetGrids) \cup LoadCalls \cup NewCalls \cup LayoutCalls

\* pack_asset on the image
pack_asset_call ==
    /\ calc.op = "pack"
    /\ calc.pc = "input"
    /\ calc' = [calc EXCEPT !.pc = "packed", !.packed = pack_asset(calc.grid_size, calc.image)]
    /\ UNCHANGED bakeVars

\* pack_asset on the image a call of pack_asset returned
pack_asset_again ==
    /\ calc.op = "pack"
    /\ calc.pc = "packed"
    /\ calc.packed.outcome = "ok"
    /\ calc' = [calc EXCEPT !.pc = "repacked",
                            !.repacked = pack_asset(calc.grid_size, calc.packed.image)]
    /\ UNCHANGED bakeVars

write_asset_call ==
    /\ calc.op = "write"
    /\ calc.pc = "input"
    /\ calc' = [calc EXCEPT !.pc = "written",
                            !.written = write_asset(calc.scale, calc.grid_size, calc.tile_size,
                                                    calc.mode, calc.image, calc.pack,
                                                    calc.index)]
    /\ UNCHANGED bakeVars

\* the asset server loads the file write_asset wrote
load_call ==
    /\ calc.op = "write"
    /\ calc.pc = "written"
    /\ calc.written.outcome = "ok"
    /\ \E overflow_checks \in BOOLEAN :
         calc' = [calc EXCEPT !.pc = "loaded",
                              !.loaded = load(calc.written.files, DefaultLoaderSettings,
                                              overflow_checks)]
    /\ UNCHANGED bakeVars

\* the asset server loads a container
load_container ==
    /\ calc.op = "load"
    /\ calc.pc = "input"
    /\ calc' = [calc EXCEPT !.pc = "loaded",
                            !.loaded = load(calc.files, calc.load_settings,
                                            calc.overflow_checks)]
    /\ UNCHANGED bakeVars

ImposterData_new_call ==
    /\ calc.op = "new"
    /\ calc.pc = "input"
    /\ calc' = [calc EXCEPT !.pc = "built",
                            !.data = ImposterData_new(calc.mode, calc.billboard_vertices,
                                                      calc.multisample, calc.use_mesh_uv_y,
                                                      calc.indexed)]
    /\ UNCHANGED bakeVars

\* the material pipeline specializes on the flags of a material that was built or loaded
specialize_call ==
    /\ \/ calc.op = "new" /\ calc.pc = "built"
       \/ calc.op = "load" /\ calc.pc = "loaded" /\ calc.loaded.outcome = "ok"
    /\ calc' = [calc EXCEPT !.pc = "specialized",
                            !.specialized = specialize(IF calc.op = "new" THEN calc.data.flags
                                                       ELSE calc.loaded.flags)]
    /\ UNCHANGED bakeVars

\* the indexed block of write_asset: the layout, the bytes of the largest index as they
\* are stored and read back, and the length of the palette the PNG holds
write_layout_call ==
    /\ calc.op = "layout"
    /\ calc.pc = "input"
    /\ LET layout == PaletteLayout(calc.count, calc.packed_size_x * calc.grid_size)
           index == calc.count - 1
       IN  calc' = [calc EXCEPT
                      !.pc = "written",
                      !.written = layout,
                      !.last_index = from_le_bytes(IF layout.use_u16
                                                   THEN to_le_bytes_u16(index % 65536)
                                                   ELSE to_le_bytes_u32(index)),
                      !.palette_bytes = layout.pixels_x * 2 * layout.pixels_y * 4]
    /\ UNCHANGED bakeVars

\* the loader on the palette and the settings record of that asset
load_layout_call ==
    /\ calc.op = "layout"
    /\ calc.pc = "written"
    /\ calc' = [calc EXCEPT !.pc = "loaded",
                            !.loaded = LoadedLayout(calc.palette_bytes,
                                                    calc.packed_size_x * calc.grid_size)]
    /\ UNCHANGED bakeVars

AssetNext ==
    \/ pack_asset_call
    \/ pack_asset_again
    \/ write_asset_call
    \/ load_call
    \/ load_container
    \/ ImposterData_new_call
    \/ specialize_call
    \/ write_layout_call
    \/ load_layout_call

AssetSpec == AssetInit /\ [][AssetNext]_vars

\* ---------------------------------------------------------- camera directions
\* grid_size ranges over 1..MaxOctGrid
MaxOctGrid == 16

\* An f32 is held in units of 2^-27: for grid sizes up to 17 every value formed by
\* normal_from_grid in the Spherical and Hemispherical modes is a multiple of 2^-27 of
\* magnitude at most 2, so the integer is the f32, exactly.
Unit == 134217728

\* IEEE round to nearest, ties to even, to the 24 significant bits of f32: the value
\* q + num / den (q >= 0, 0 <= num < den) in units of 2^-27
RoundF32(q, num, den) ==
    LET \* the number of binary digits of a natural number, and the powers of 2
        RECURSIVE BitLen(_)
        BitLen(n) == IF n = 0 THEN 0 ELSE 1 + BitLen(n \div 2)
        RECURSIVE Pow2(_)
        Pow2(k) == IF k = 0 THEN 1 ELSE 2 * Pow2(k - 1)
        shift == IF BitLen(q) > 24 THEN BitLen(q) - 24 ELSE 0
        step == Pow2(shift)
        kept == q \div step
        low == q % step
        \* twice the discarded part against the step: low + num / den against step / 2
        up == IF shift = 0
              THEN 2 * num > den \/ (2 * num = den /\ kept % 2 = 1)
              ELSE \/ 2 * low > step
                   \/ 2 * low = step /\ (num > 0 \/ kept % 2 = 1)
    IN  (kept + (IF up THEN 1 ELSE 0)) * step

\* variant: the sign is kept
Abs_identity(v) == v

\* f32::abs
Abs(v) == IF v < 0 THEN -v ELSE v

\* a + b and a - b on f32: the exact sum, rounded
AddF32(a, b) ==
    IF a + b < 0 THEN -RoundF32(-(a + b), 0, 1) ELSE RoundF32(a + b, 0, 1)
SubF32(a, b) == AddF32(a, -b)

\* a as f32 / b as f32 for small naturals a and b, b > 0
DivF32(a, b) ==
    LET rest == (a % b) * Unit
    IN  RoundF32((a \div b) * Unit + rest \div b, rest % b, b)

\* f32::signum: 1.0 for +0.0 and above; a difference that is zero is +0.0
Signum(v) == IF v < 0 THEN -1 ELSE 1

\* The vector handed to normalize(): "octahedral" with its three f32 components,
\* "circle" for (sin a, 0, cos a) with a = 2 PI index / count, and "nan" when every
\* component is NaN
NaNVector == [kind |-> "nan"]

\* `n.y.abs() > 0.99` on the normalized vector, decided in exact arithmetic:
\* y^2 > 0.9801 (x^2 + y^2 + z^2) on the components in units of 2^-27 / 2^20; every
\* comparison with NaN is false
UpOf(n) ==
    IF n.kind = "octahedral"
    THEN LET x == n.x \div 1048576
             y == n.y \div 1048576
             z == n.z \div 1048576
         IN  IF 10000 * y * y > 9801 * (x * x + y * y + z * z) THEN "Z" ELSE "Y"
    ELSE "Y"

\* normal_from_grid(grid_pos, mode, grid_size): the vector before normalize(), and up.
\* `as_vec2() / (grid_size - 1) as f32` is 0.0 / 0.0 = NaN when grid_size is 1.
normal_from_grid(grid_pos, mode, grid_size) ==
    LET divisor == grid_size - 1
        uv == <<DivF32(grid_pos[1], divisor), DivF32(grid_pos[2], divisor)>>
        spherical ==
            LET x == SubF32(2 * uv[1], Unit)
                z == SubF32(2 * uv[2], Unit)
                y == SubF32(SubF32(Unit, Abs(x)), Abs(z))
            IN  IF y < 0
                THEN [kind |-> "octahedral",
                      x |-> Signum(x) * SubF32(Unit, Abs(z)),
                      y |-> y,
                      z |-> Signum(z) * SubF32(Unit, Abs(x))]
                ELSE [kind |-> "octahedral", x |-> x, y |-> y, z |-> z]
        hemispherical ==
            LET x == SubF32(uv[1], uv[2])
                z == AddF32(AddF32(-Unit, uv[1]), uv[2])
                y == SubF32(SubF32(Unit, Abs(x)), Abs(z))
            IN  [kind |-> "octahedral", x |-> x, y |-> y, z |-> z]
        horizontal ==
            [kind |-> "circle", index |-> grid_pos[2] * grid_size + grid_pos[1],
             count |-> grid_size * grid_size]
        n == CASE mode = "Horizontal" -> horizontal
               [] mode = "Spherical" /\ divisor = 0 -> NaNVector
               [] mode = "Hemispherical" /\ divisor = 0 -> NaNVector
               [] mode = "Spherical" -> spherical
               [] mode = "Hemispherical" -> hemispherical
    IN  [n |-> n, up |-> UpOf(n)]

\* extract_imposter_cameras without manual transforms: `for y in 0..grid_size`,
\* `for x in 0..grid_size`, one subview per cell with the direction of the cell
GridInit ==
    /\ NoSession
    /\ calc \in { [op |-> "grid", grid_size |-> grid_size, grid_mode |-> mode,
                   subviews |-> <<>>] :
                    grid_size \in 1..MaxOctGrid, mode \in GridMode }

\* one turn of the inner loop: the next cell in the order of the two loops
push_subview ==
    /\ calc.op = "grid"
    /\ Len(calc.subviews) < calc.grid_size * calc.grid_size
    /\ LET x == Len(calc.subviews) % calc.grid_size
           y == Len(calc.subviews) \div calc.grid_size
           direction == normal_from_grid(<<x, y>>, calc.grid_mode, calc.grid_size)
       IN  calc' = [calc EXCEPT !.subviews =
                        Append(@, [x |-> x, y |-> y, normal |-> direction.n,
                                   up |-> direction.up])]
    /\ UNCHANGED bakeVars

GridNext == push_subview

GridSpec == GridInit /\ [][GridNext]_vars

\* ------------------------------------------------------------------ claims
Rank(s) == CASE s = "Rendering" -> 0 [] s = "RunningCallback" -> 1 [] s = "Finished" -> 2

AllTiles(c) == 0..(Tiles(c) - 1)

\* C1: the state of a non-continuous camera only moves forward through Rendering,
\* RunningCallback, Finished; it never shows RunningCallback when no callback is set;
\* and it shows Finished only when the session's last command task filled the grid.
C1_StateMovesForward ==
    [][\A c \in Cams : ~camera[c].continuous =>
          /\ Rank(camera'[c].state) >= Rank(camera[c].state)
          /\ camera[c].callback = None => camera'[c].state # "RunningCallback"
          /\ camera'[c].state # "Rendering" => completed'[c]]_vars

\* a 2x2 session with a callback has been through RunningCallback and shows Finished
C1_Witness ==
    \E c \in Cams :
        /\ ~camera[c].continuous
        /\ camera[c].callback # None
        /\ camera[c].grid_size = 2
        /\ camera[c].state = "Finished"
        /\ task[camera[c].callback].pc = "done"

CallbackOrder == <<"RunningCallback", "mapped", "invoked", "returned", "Finished">>

IsPrefix(s, t) == Len(s) <= Len(t) /\ \A i \in 1..Len(s) : s[i] = t[i]

\* what the readback tasks have done so far respects the order
C2_History ==
    /\ \A cb \in Callbacks : IsPrefix(task[cb].events, CallbackOrder)
    /\ \A cb \in Callbacks : fired[cb] > 0 => Len(task[cb].events) >= 3
    /\ \A c \in Cams :
          camera[c].callback # None /\ ~camera[c].continuous
          => channel[c].queue # <<"Finished", "RunningCallback">>

\* C2: for a session with a callback the events come in the order RunningCallback
\* sent, buffer mapped, callback invoked, callback returned, Finished sent: the task's
\* history is a prefix of that order, a callback that fired has a mapped buffer, the
\* channel never carries Finished ahead of the session's RunningCallback, and when the
\* session was extracted with a callback the only step that puts Finished into its
\* channel is the one that completes a task's history after its callback has fired.
C2_CallbackOrder ==
    /\ [](C2_History)
    /\ [][\A c \in Cams :
              Len(channel'[c].queue) > Len(channel[c].queue)
              /\ channel'[c].queue[Len(channel'[c].queue)] = "Finished"
              => \/ /\ sending.cam = c
                    /\ extracted[c] = None
                 \/ \E cb \in Callbacks :
                       /\ task[cb].cam = c
                       /\ fired[cb] = 1
                       /\ task[cb].events # CallbackOrder
                       /\ task'[cb].events = CallbackOrder]_vars

\* both states of a session with a callback wait in the channel, in order
C2_Witness ==
    \E c \in Cams :
        /\ camera[c].callback # None
        /\ channel[c].queue = <<"RunningCallback", "Finished">>
        /\ task[camera[c].callback].events = CallbackOrder

\* C3: a callback installed with set_callback is invoked at most once, however many
\* times a continuous session completes and however many cameras hold the handle; a
\* callback still in its cell has not been invoked.
C3_CallbackAtMostOnce ==
    \A cb \in Callbacks :
        /\ fired[cb] <= 1
        /\ callbackCell[cb] => fired[cb] = 0

\* a continuous session completes its grid again after its callback has fired
C3_Witness ==
    \E c \in Cams :
        /\ camera[c].continuous
        /\ camera[c].callback # None
        /\ fired[camera[c].callback] = 1
        /\ last.op = "send"
        /\ last.cam = c
        /\ last.sent = "RunningCallback"

\* C4 as stated: in a frame started with zero tiles the session stays at tile 0
\* exactly when wait_for_render is set and the actual count is below the expected
\* one; it then has rendered 0 tiles, sends nothing, and is retried next frame.
C4_AsStated ==
    last.op \in {"run", "skip"} /\ last.start = 0
    => /\ last.rendered = 0
          <=> (camera[last.cam].wait_for_render /\ last.actual < last.expected)
       /\ last.rendered = 0 => sending = NotSending

\* C4: in a frame started with zero tiles in which the command task runs, the session
\* stays at tile 0 exactly when wait_for_render is set and the actual count is below
\* the expected one, or when the resolve path (multisample > 1) is given
\* max_tiles_per_frame = 0; it then has rendered 0 tiles, sends nothing on its channel,
\* and PartBaked holds 0 for the next frame. Otherwise it advances, on both paths.
C4_ReadinessGate ==
    last.op = "run" /\ last.start = 0
    => /\ last.rendered = 0
          <=> \/ camera[last.cam].wait_for_render /\ last.actual < last.expected
              \/ camera[last.cam].multisample # 1
                 /\ camera[last.cam].max_tiles_per_frame = 0
       /\ last.rendered = 0
          => /\ sending = NotSending
             /\ Has(part_baked, last.cam)
             /\ part_baked[last.cam] = 0
             /\ ~completed[last.cam]

\* the resolve path waits at tile 0 because fewer draws were made than expected
C4_Witness ==
    /\ last.op = "run"
    /\ last.start = 0
    /\ last.rendered = 0
    /\ camera[last.cam].multisample # 1
    /\ camera[last.cam].max_tiles_per_frame > 0
    /\ camera[last.cam].wait_for_render
    /\ last.actual < last.expected

\* C5: a command task renders at most max_tiles_per_frame tiles in a frame, on both
\* paths, the frame in which tile 0 first passes included.
C5_TilesPerFrame ==
    last.op = "run" => last.rendered - last.start <= camera[last.cam].max_tiles_per_frame

\* C6: a non-continuous session whose command task filled the grid is not extracted
\* again: it is among the extracted cameras only in the frame of that task.
C6_NeverExtractedAgain ==
    \A c \in Cams :
        ~camera[c].continuous /\ completed[c] /\ Has(extracted, c) => c \in ran

\* a frame after the completion in which the main world has not yet seen the state:
\* the camera still shows Rendering and only the waiting message keeps it out
C6_Witness ==
    \E c \in Cams :
        /\ ~camera[c].continuous
        /\ completed[c]
        /\ WithChannel(c)
        /\ camera[c].state = "Rendering"
        /\ channel[c].queue # <<>>
        /\ renderPc = "graph"
        /\ ~Has(extracted, c)

\* C7: a continuous camera's state stays Rendering, its channel component stays while
\* the entity lives, and the command task that follows a completed grid starts from
\* tile 0.
C7_ContinuousRestarts ==
    /\ [](\A c \in Cams : camera[c].continuous =>
              /\ camera[c].state = "Rendering"
              /\ c \in alive => channel[c].receiver
              /\ completed[c] => ~Has(part_baked, c))
    /\ [][\A c \in Cams :
              camera[c].continuous /\ completed[c] /\ c \notin ran /\ c \in ran'
              /\ last'.op = "run"
              => last'.start = 0]_vars

\* a continuous session whose Finished was delivered is part-way through a new grid
C7_Witness ==
    \E c \in Cams :
        /\ camera[c].continuous
        /\ camera[c].callback # None
        /\ task[camera[c].callback].pc = "done"
        /\ channel[c].queue = <<>>
        /\ camera[c].state = "Rendering"
        /\ last.op = "run"
        /\ last.cam = c
        /\ last.start = 0
        /\ last.rendered > 0
        /\ last.rendered < Tiles(c)

\* C8: every non-continuous session with max_tiles_per_frame >= 1 eventually shows
\* Finished, and with a callback set the callback has fired by then.
C8_EventuallyFinished ==
    \A c \in Cams :
        (c \in alive /\ ~camera[c].continuous /\ camera[c].max_tiles_per_frame >= 1)
        => <>(/\ camera[c].state = "Finished"
              /\ camera[c].callback # None => fired[camera[c].callback] >= 1)

\* The sessions that share their callback handle with no other live camera do finish.
LiveWhenUnshared ==
    \A c \in Cams :
        (/\ c \in alive /\ ~camera[c].continuous /\ camera[c].max_tiles_per_frame >= 1
         /\ \A d \in alive \ {c} : camera[d].callback \notin {camera[c].callback} \ {None})
        => <>(/\ camera[c].state = "Finished"
              /\ camera[c].callback # None => fired[camera[c].callback] >= 1)

\* C9: whenever a command task of the render thread is at its channel send, the
\* channel holds fewer than Capacity undelivered states.
C9_SendNeverBlocks ==
    \A c \in Cams : sending.cam = c => Len(channel[c].queue) < Capacity

\* C10: with a target configured, the step that reports a completed grid leaves the
\* whole atlas in the target, and no other step writes the target.
C10_TargetCopied ==
    [][\A c \in Cams : camera[c].target =>
          /\ sending.cam = c /\ sending'.cam = 0 => targetImage'[c] = AllTiles(c)
          /\ targetImage'[c] # targetImage[c] => sending.cam = c /\ completed[c]]_vars

\* C11: when a session's entity is gone while its readback task is in flight, the
\* task can still take each of its steps (the mapping completes, and the send of
\* Finished does not block); the step that invokes the callback counts one invocation
\* as for a live session; and the step that reports Finished completes the task's
\* history and changes no camera and no channel.
C11_TornDownReadback ==
    /\ [](\A cb \in Callbacks : task[cb].cam \notin alive =>
              /\ task[cb].pc = "map_async" => ENABLED readback(cb)
              /\ task[cb].pc = "callback" => ENABLED finish(cb))
    /\ [][\A cb \in Callbacks : task[cb].cam \notin alive =>
              /\ task[cb].pc = "map_async" /\ task'[cb].pc # "map_async"
                 => /\ task'[cb].pc = "callback"
                    /\ fired'[cb] = fired[cb] + 1
              /\ task[cb].pc = "callback" /\ task'[cb].pc # "callback"
                 => /\ task'[cb].events = CallbackOrder
                    /\ channel' = channel
                    /\ camera' = camera]_vars

\* a one-shot session was removed before its task reported: the task is done, its
\* callback fired, and the Finished it sent reached neither the channel nor the camera
C11_Witness ==
    \E cb \in Callbacks :
        /\ task[cb].pc = "done"
        /\ task[cb].cam \notin alive
        /\ fired[cb] = 1
        /\ ~camera[task[cb].cam].continuous
        /\ camera[task[cb].cam].state # "Finished"
        /\ ~GotFinished(channel[task[cb].cam].queue)

\* C12: a session whose manual_camera_transforms holds fewer than grid_size * grid_size
\* entries fails with an error that is reported as a result, that is, extraction never
\* ends in a panic of the render world; and no tile of it has been rendered when it fails.
C12_ExplicitError ==
    \A c \in Cams : NotEnoughTransforms(c) =>
        /\ renderPc # "panicked"
        /\ atlas[c] = {} /\ ~Has(part_baked, c)

\* the half of C12 that holds: a failed session has rendered nothing and was never
\* handed to the bake node
NothingRenderedBeforeFailure ==
    \A c \in Cams : NotEnoughTransforms(c) =>
        atlas[c] = {} /\ ~Has(part_baked, c) /\ ~Has(extracted, c) /\ c \notin ran

\* C13: the image handed to the callback has image_size * image_size * 8 bytes and its
\* row r is the first image_size * 8 bytes of row r of the transfer buffer, that is,
\* the texture's bytes in order; the stride of the copy into the buffer and the stride
\* of the stripping are the same multiple of 256, at least image_size * 8.
C13_RowsStripped ==
    /\ calc.op = "readback" /\ calc.pc # "texture" =>
         /\ calc.bytes_per_row = buffered_row_bytes(calc.image_size)
         /\ calc.bytes_per_row % COPY_BYTES_PER_ROW_ALIGNMENT = 0
         /\ calc.bytes_per_row >= calc.image_size * pixel_size
    /\ calc.op = "readback" => calc.pc # "panicked"
    /\ calc.op = "readback" /\ calc.pc = "image" =>
         /\ Len(calc.result) = calc.image_size * calc.image_size * pixel_size
         /\ calc.result = TextureBytes(calc.image_size)

\* an image of 32 x 32 pixels, whose rows of 256 bytes are already a multiple of the
\* alignment, has been stripped
C13_Witness ==
    /\ calc.op = "readback"
    /\ calc.pc = "image"
    /\ calc.image_size = 32
    /\ calc.row = 32

\* the asset a write call produced has been loaded
Loaded == calc.op = "write" /\ calc.pc = "loaded"

AssetTypeOK ==
    /\ calc.op = "write" /\ calc.pc # "input" => calc.written.outcome \in {"ok", "panic"}
    /\ Loaded => calc.loaded.outcome \in {"ok", "error"}

\* a write call has returned a container
Written == calc.op = "write" /\ calc.pc # "input" /\ calc.written.outcome = "ok"

\* the image write_asset stored, and the rectangle it recorded: pack_asset's when
\* packing, else the image as given with a full tile
Stored == calc.written.packed

\* write_asset stores what pack_asset returns for the image, or the image itself
StoredAsAsked ==
    Written =>
        Stored = IF calc.pack THEN pack_asset(calc.grid_size, calc.image)
                 ELSE [outcome |-> "ok", image |-> calc.image, offset |-> <<0, 0>>,
                       size |-> <<calc.tile_size, calc.tile_size>>]

\* C14: the settings read back from a written container are the grid size, scale, mode,
\* base tile size, packed offset and packed size that were written, for each of the
\* three modes, packed or not.
C14_SettingsRoundTrip ==
    Loaded =>
        /\ calc.loaded.outcome = "ok"
        /\ calc.loaded.grid_size = calc.grid_size
        /\ calc.loaded.scale = calc.scale
        /\ from_flags(calc.loaded.flags) = calc.mode
        /\ calc.loaded.base_tile_size = calc.tile_size
        /\ calc.loaded.packed_tile_offset = Stored.offset
        /\ calc.loaded.packed_tile_size = Stored.size

\* a packed asset in mode Horizontal with scale 1000.25 has been read back
C14_Witness ==
    /\ Loaded
    /\ calc.loaded.outcome = "ok"
    /\ calc.mode = "Horizontal"
    /\ calc.scale = 4001
    /\ calc.pack

\* a packed asset whose rectangle is not the full tile has been read back
PackedRectangleRead ==
    /\ Loaded
    /\ calc.pack
    /\ calc.loaded.packed_tile_offset # <<0, 0>>
    /\ calc.loaded.packed_tile_size # <<calc.tile_size, calc.tile_size>>

\* the index stored for the pixel at (x, y), read with the index width and the line
\* width the loader derives, and the palette entry it selects
StoredIndex(asset, x, y) ==
    LET use_u16 == asset.pixels.width * asset.pixels.height < 65536
        index_bytes == IF use_u16 THEN 2 ELSE 4
        at == y * asset.indices.width * 4 + x * index_bytes
    IN  from_le_bytes(SubSeq(asset.indices.data, at + 1, at + index_bytes))
PaletteEntry(asset, index) == SubSeq(asset.pixels.data, 8 * index + 1, 8 * index + 8)

\* C15: what is loaded holds the stored image's pixels without loss: raw, the loaded
\* bytes are the image's bytes; indexed, the palette entry selected by the stored index
\* of every position is the image's pixel there, odd widths included.
C15_PixelsLossless ==
    Loaded /\ calc.loaded.outcome = "ok" =>
        IF calc.loaded.is_indexed
        THEN \A x \in 0..(Stored.image.width - 1), y \in 0..(Stored.image.height - 1) :
                PaletteEntry(calc.loaded, StoredIndex(calc.loaded, x, y))
                    = PixelAt(Stored.image, x, y)
        ELSE /\ calc.loaded.pixels.data = Stored.image.data
             /\ calc.loaded.pixels.width = Stored.image.width
             /\ calc.loaded.pixels.height = Stored.image.height

\* an image 3 pixels wide with three distinct values was stored with 2-byte indices in
\* padded lines, and read back
C15_Witness ==
    /\ Loaded
    /\ calc.loaded.is_indexed
    /\ Stored.image.width = 3
    /\ Cardinality(Chunks(Stored.image)) = 3
    /\ calc.loaded.indices.width = 2

\* the bytes the palette image and the index image of an image take when stored:
\* pixels_x * pixels_y entries of 8 bytes, and lines of 2-byte indices padded to 4 bytes
IndexedBytesStored(image) ==
    LET cells == CeilSqrt(Cardinality(Chunks(image)))
                    * CeilDiv(Cardinality(Chunks(image)), CeilSqrt(Cardinality(Chunks(image))))
    IN  cells * 8 + (IF cells < 65536
                     THEN ((image.width + 1) \div 2) * 4 * image.height
                     ELSE image.width * image.height * 4)

\* C16: a written container holds texture.png alone or pixels.png with indices.png,
\* never both and never neither; it holds the indexed pair exactly when indexing was
\* requested and the palette and index images as stored take fewer bytes than the raw
\* image.
C16_OneVariantSmaller ==
    Written =>
        LET names == DOMAIN calc.written.files
            indexed == "pixels.png" \in names
        IN  /\ \/ names = {"settings.txt", "texture.png"}
               \/ names = {"settings.txt", "pixels.png", "indices.png"}
            /\ indexed =>
                 /\ calc.index
                 /\ Len(calc.written.files["pixels.png"].bytes)
                        + Len(calc.written.files["indices.png"].bytes)
                      < Len(Stored.image.data)
            /\ ~indexed =>
                 ~(calc.index /\ IndexedBytesStored(Stored.image) < Len(Stored.image.data))

\* the part of C16 that holds: exactly one variant, indexed only on request, and raw
\* whenever the indexed form would not be smaller
OneVariant ==
    Written =>
        LET names == DOMAIN calc.written.files
            indexed == "pixels.png" \in names
        IN  /\ \/ names = {"settings.txt", "texture.png"}
               \/ names = {"settings.txt", "pixels.png", "indices.png"}
            /\ indexed =>
                 /\ calc.index
                 /\ Len(calc.written.files["pixels.png"].bytes)
                        + Len(calc.written.files["indices.png"].bytes)
                      = IndexedBytesStored(Stored.image)
            /\ ~indexed =>
                 ~(calc.index /\ IndexedBytesStored(Stored.image) < Len(Stored.image.data))

\* a write call has returned a container of the indexed variant
WrittenIndexed == Written /\ "pixels.png" \in DOMAIN calc.written.files

\* the entries of the written palette, and the index written for the pixel at (x, y)
PaletteLen == Len(calc.written.files["pixels.png"].bytes) \div 8
WrittenEntry(i) == SubSeq(calc.written.files["pixels.png"].bytes, 8 * i + 1, 8 * i + 8)
WrittenIndex(x, y) ==
    LET index_bytes == IF PaletteLen < 65536 THEN 2 ELSE 4
        at == y * calc.written.files["indices.png"].width * 4 + x * index_bytes
    IN  from_le_bytes(SubSeq(calc.written.files["indices.png"].bytes,
                             at + 1, at + index_bytes))

\* every index written for a position of the stored image is below k
IndicesBelow(k) ==
    \A x \in 0..(Stored.image.width - 1), y \in 0..(Stored.image.height - 1) :
        WrittenIndex(x, y) < k

\* C17 as stated: an image with K distinct pixel values stored indexed has a palette of
\* exactly K entries, holding every distinct value exactly once, and every index is
\* below K.
C17_AsStated ==
    WrittenIndexed =>
        LET K == Cardinality(Chunks(Stored.image)) IN
        /\ PaletteLen = K
        /\ \A value \in Chunks(Stored.image) :
             Cardinality({i \in 0..(PaletteLen - 1) : WrittenEntry(i) = value}) = 1
        /\ IndicesBelow(K)

\* C17 amended: the palette has pixels_x * pixels_y entries, at least K; its first K
\* entries are the image's distinct values in ascending byte order, each once; the
\* entries after them are zero; and every index is below K.
C17_PaddedPalette ==
    WrittenIndexed =>
        LET K == Cardinality(Chunks(Stored.image))
            pixels_x == CeilSqrt(K)
            pixels_y == CeilDiv(K, pixels_x)
        IN  /\ PaletteLen = pixels_x * pixels_y
            /\ PaletteLen >= K
            /\ \A value \in Chunks(Stored.image) :
                 Cardinality({i \in 0..(K - 1) : WrittenEntry(i) = value}) = 1
            /\ \A i \in 0..(K - 2) : LexLess(WrittenEntry(i), WrittenEntry(i + 1))
            /\ \A i \in K..(PaletteLen - 1) : WrittenEntry(i) = PixelBytes(Zero)
            /\ IndicesBelow(K)

\* an image with three distinct values, one of them zero, was stored with a palette of
\* four entries
C17_Witness ==
    /\ WrittenIndexed
    /\ Cardinality(Chunks(Stored.image)) = 3
    /\ PixelBytes(Zero) \in Chunks(Stored.image)
    /\ PaletteLen = 4

\* the rectangle a call of pack_asset returned lies inside one tile of its input image
WithinTile(result, input, grid_size) ==
    result.outcome = "ok" =>
        LET tile == <<input.width \div grid_size, input.height \div grid_size>> IN
        \A axis \in {1, 2} :
            /\ result.size[axis] >= 1
            /\ result.size[axis] <= tile[axis]
            /\ result.offset[axis] + result.size[axis] <= tile[axis]

\* C18: the packed size pack_asset returns is at least 1 and at most the per-tile size
\* in both axes, and offset + size stays within the tile; and the packed rectangle of
\* every asset written lies within its base tile size.
C18_PackedWithinTile ==
    /\ calc.op = "pack" =>
         /\ WithinTile(calc.packed, calc.image, calc.grid_size)
         /\ WithinTile(calc.repacked, calc.packed.image, calc.grid_size)
    /\ Loaded /\ calc.loaded.outcome = "ok" =>
         \A axis \in {1, 2} :
            /\ calc.loaded.packed_tile_size[axis] >= 1
            /\ calc.loaded.packed_tile_size[axis] <= calc.loaded.base_tile_size
            /\ calc.loaded.packed_tile_offset[axis] + calc.loaded.packed_tile_size[axis]
                 <= calc.loaded.base_tile_size

\* pack_asset cropped tiles of 2 x 2 pixels to their right column
C18_Witness ==
    /\ calc.op = "pack"
    /\ calc.pc = "packed"
    /\ calc.packed.outcome = "ok"
    /\ calc.tile_size = 2
    /\ calc.packed.offset = <<1, 0>>
    /\ calc.packed.size = <<1, 2>>

\* a packed asset whose used pixels end before the tile's right edge was written and read
C18_WrittenPacked ==
    /\ Loaded
    /\ calc.pack
    /\ calc.tile_size = 3
    /\ calc.loaded.packed_tile_offset = <<1, 0>>
    /\ calc.loaded.packed_tile_size = <<1, 1>>

\* pack_asset has returned from its call on the square image
Packed == calc.op = "pack" /\ calc.pc # "input" /\ calc.packed.outcome = "ok"

\* the in-tile positions of the image at which some tile has a pixel with non-zero data
\* (either channel), and those at which some tile has a non-zero first channel
TileOf(grid_size) == 0..(grid_size - 1)
InTile == 0..(calc.tile_size - 1)
NonZeroAt(px, py) ==
    \E gx \in TileOf(calc.grid_size), gy \in TileOf(calc.grid_size) :
        PixelAt(calc.image, gx * calc.tile_size + px, gy * calc.tile_size + py)
            # PixelBytes(Zero)
FirstChannelAt(px, py) ==
    \E gx \in TileOf(calc.grid_size), gy \in TileOf(calc.grid_size) :
        IsUsed(calc.image, gx * calc.tile_size + px, gy * calc.tile_size + py)

\* the rectangle returned is the bounding box of the positions that satisfy `used`
\* (the single pixel at the origin when there is none)
IsBoundingBox(used(_, _)) ==
    LET xs == {px \in InTile : \E py \in InTile : used(px, py)}
        ys == {py \in InTile : \E px \in InTile : used(px, py)}
        offset == calc.packed.offset
        size == calc.packed.size
    IN  /\ xs # {} => /\ offset[1] \in xs /\ \A px \in xs : offset[1] <= px
                      /\ offset[1] + size[1] - 1 \in xs
                      /\ \A px \in xs : px <= offset[1] + size[1] - 1
                      /\ offset[2] \in ys /\ \A py \in ys : offset[2] <= py
                      /\ offset[2] + size[2] - 1 \in ys
                      /\ \A py \in ys : py <= offset[2] + size[2] - 1
        /\ xs = {} => offset = <<0, 0>> /\ size = <<1, 1>>

\* every pixel outside the rectangle fails `used` in every tile
DiscardedFail(used(_, _)) ==
    \A px \in InTile, py \in InTile :
        (\/ px < calc.packed.offset[1]
         \/ px >= calc.packed.offset[1] + calc.packed.size[1]
         \/ py < calc.packed.offset[2]
         \/ py >= calc.packed.offset[2] + calc.packed.size[2]) => ~used(px, py)

\* the pixel of output tile (gx, gy) at (px, py) is the input pixel of that tile at
\* (x_start + px, y_start + py)
KeptEqualInput ==
    \A gx \in TileOf(calc.grid_size), gy \in TileOf(calc.grid_size) :
    \A px \in 0..(calc.packed.size[1] - 1), py \in 0..(calc.packed.size[2] - 1) :
        PixelAt(calc.packed.image, gx * calc.packed.size[1] + px,
                                   gy * calc.packed.size[2] + py)
          = PixelAt(calc.image, gx * calc.tile_size + calc.packed.offset[1] + px,
                                gy * calc.tile_size + calc.packed.offset[2] + py)

\* C19: the rectangle pack_asset crops to is the bounding box of the in-tile positions
\* where some tile has non-zero pixel data in either channel, so every discarded pixel
\* is entirely zero in every tile, and every kept pixel equals the input pixel at the
\* offset position.
C19_BoundingBoxOfData ==
    Packed =>
        /\ IsBoundingBox(NonZeroAt)
        /\ DiscardedFail(NonZeroAt)
        /\ KeptEqualInput

\* what holds of the code: the same with `used` read as the first channel being non-zero
FirstChannelBox ==
    Packed =>
        /\ IsBoundingBox(FirstChannelAt)
        /\ DiscardedFail(FirstChannelAt)
        /\ KeptEqualInput

\* pack_asset has been applied to the image a first call returned
Repacked == calc.op = "pack" /\ calc.pc = "repacked"

\* the second call returns the image it was given, with offset (0, 0) and the whole tile
SameAgain ==
    /\ calc.repacked.outcome = "ok"
    /\ calc.repacked.offset = <<0, 0>>
    /\ calc.repacked.size = calc.packed.size
    /\ calc.repacked.image = calc.packed.image

\* C20: pack_asset applied to the output of a previous pack_asset call, whatever its
\* packed width and height, returns offset (0, 0), a packed size equal to the per-tile
\* size of its input, and the same pixel data.
C20_Idempotent == Repacked => SameAgain

\* what holds of the code: the same when the first call cropped to a square
IdempotentOnSquares ==
    Repacked /\ calc.packed.size[1] = calc.packed.size[2] => SameAgain

\* the second call on tiles wider than high reads past the end of the data
RepackPanics ==
    Repacked /\ calc.packed.size[1] > calc.packed.size[2] => calc.repacked.outcome = "panic"

\* ---- C21
\* no pixel position of the image is used, in the sense of pack_asset's scan
NothingUsed(image) ==
    \A x \in 0..(image.width - 1), y \in 0..(image.height - 1) : ~IsUsed(image, x, y)

PackedNothing == calc.op = "pack" /\ calc.pc # "input" /\ NothingUsed(calc.image)
WrotePackedNothing ==
    calc.op = "write" /\ calc.pc # "input" /\ calc.pack /\ NothingUsed(calc.image)

\* C21: packing an image in which no pixel position is used ends in the fatal exit of
\* the process, and neither a packed image nor the entries of a container are produced.
C21_ZeroAreaAborts ==
    /\ PackedNothing => calc.packed.outcome = "exit" /\ calc.packed.image = NoImage
    /\ WrotePackedNothing => calc.written.outcome = "exit" /\ calc.written.files = NoFiles

\* what the code does with such an image: `unwrap_or((0, &true))` makes both ranges the
\* single position 0, so every tile is cropped to its first pixel and the call returns
NothingUsedPacksOrigin ==
    /\ PackedNothing =>
         /\ calc.packed.outcome = "ok"
         /\ calc.packed.offset = <<0, 0>>
         /\ calc.packed.size = <<1, 1>>
         /\ calc.packed.image.width = calc.grid_size
         /\ calc.packed.image.height = calc.grid_size
    /\ WrotePackedNothing =>
         /\ calc.written.outcome = "ok"
         /\ "settings.txt" \in DOMAIN calc.written.files

\* the exit of pack_asset is taken by no call
NeverExits ==
    /\ calc.op = "pack" => calc.packed.outcome # "exit" /\ calc.repacked.outcome # "exit"
    /\ calc.op = "write" => calc.written.outcome # "exit"

\* ---- C22
LoadedContainer == calc.op = "load" /\ calc.pc # "input"

\* the settings record of the container, when it has one
RecordOf(files) == Split(files["settings.txt"])

TooFewFields(files) == Len(RecordOf(files)) < 8
FieldDoesNotParse(files) ==
    \/ \E i \in {1, 4, 5, 6, 7, 8} : ParseU32(RecordOf(files)[i]) < 0
    \/ ParseF32(RecordOf(files)[2]) < 0
UnknownMode(files) == ModeOfName(RecordOf(files)[3]) = "bad mode"
MissingEntry(files) ==
    \/ "settings.txt" \notin DOMAIN files
    \/ "pixels.png" \notin DOMAIN files /\ "texture.png" \notin DOMAIN files
    \/ "pixels.png" \in DOMAIN files /\ "indices.png" \notin DOMAIN files

\* the four defects of the claim
Malformed(files) ==
    \/ MissingEntry(files)
    \/ TooFewFields(files)
    \/ ~TooFewFields(files) /\ (FieldDoesNotParse(files) \/ UnknownMode(files))

\* C22: loading a container whose settings record has fewer than 8 fields, a field that
\* does not parse, an unknown mode word, or that misses its settings or pixel entry
\* returns an error: no Imposter and no abort.
C22_MalformedIsError ==
    LoadedContainer /\ Malformed(calc.files) => calc.loaded.outcome = "error"

\* the part that holds: the loader never returns an Imposter for such a container, and
\* it returns the error whenever the sizes of the record fit u32 or the build has no
\* overflow checks
SizesFit(files) ==
    LET record == RecordOf(files)
        grid_size == ParseU32(record[1])
    IN  /\ ~MulOverflows(ParseU32(record[7]), grid_size)
        /\ ~MulOverflows(ParseU32(record[8]), grid_size)
        /\ ~ProductAtLeast(ParseU32(record[7]) * grid_size, ParseU32(record[8]) * grid_size,
                           536870912)
MalformedIsNeverLoaded ==
    LoadedContainer /\ Malformed(calc.files) =>
        /\ calc.loaded.outcome \in {"error", "panic"}
        /\ calc.loaded.outcome = "panic" =>
             /\ calc.overflow_checks
             /\ UnknownMode(calc.files)
             /\ ~SizesFit(calc.files)
WellFormedIsLoaded ==
    LoadedContainer /\ ~Malformed(calc.files) /\ SizesFit(calc.files) =>
        calc.loaded.outcome = "ok"

\* ---- C23
LoadedIndexed == LoadedContainer /\ "pixels.png" \in DOMAIN calc.files
                               /\ "indices.png" \in DOMAIN calc.files
                               /\ ~Malformed(calc.files)

\* the number of entries of the stored palette, and the 2-byte indices stored
PaletteEntries(files) == Len(files["pixels.png"].bytes) \div 8
StoredIndices(files) ==
    LET bytes == files["indices.png"].bytes
    IN  { from_le_bytes(SubSeq(bytes, 2 * k + 1, 2 * k + 2)) :
            k \in 0..((Len(bytes) \div 2) - 1) }
SomeIndexOutOfPalette(files) ==
    \E index \in StoredIndices(files) : index >= PaletteEntries(files)

\* the index image is not the one of an image of packed_tile_size * grid_size pixels
IndexSizeMismatch(files) ==
    LET record == RecordOf(files)
        size == <<ParseU32(record[7]) * ParseU32(record[1]),
                  ParseU32(record[8]) * ParseU32(record[1])>>
    IN  \/ files["indices.png"].width # (size[1] + 1) \div 2
        \/ files["indices.png"].height # size[2]

\* C23: an indexed container with an index that is not below the number of palette
\* entries, or with an index image whose size does not match packed_tile_size *
\* grid_size, is reported as an error and never loaded as an Imposter.
C23_IndexMismatchIsError ==
    LoadedIndexed /\ (SomeIndexOutOfPalette(calc.files) \/ IndexSizeMismatch(calc.files))
        => calc.loaded.outcome = "error"

\* what the code does: neither is looked at, the container is loaded, with an index
\* image that is given the size of the settings record whatever bytes it holds
IndexedIsLoadedUnchecked ==
    LoadedIndexed /\ SizesFit(calc.files) =>
        /\ calc.loaded.outcome = "ok"
        /\ calc.loaded.indices.data = calc.files["indices.png"].bytes
        /\ calc.loaded.indices.height
             = ParseU32(RecordOf(calc.files)[8]) * ParseU32(RecordOf(calc.files)[1])

\* ---- C24
\* the loop over the grid has pushed the subview of every cell
GridFilled == calc.op = "grid" /\ Len(calc.subviews) = calc.grid_size * calc.grid_size

\* the vector normal_from_grid forms from UV = (0, 0): the folded corner (0, -1, 0),
\* (0, 0, -1), and the angle 0
DirectionAtUVZero(mode) ==
    CASE mode = "Spherical" -> [kind |-> "octahedral", x |-> 0, y |-> -Unit, z |-> 0]
      [] mode = "Hemispherical" -> [kind |-> "octahedral", x |-> 0, y |-> 0, z |-> -Unit]
      [] mode = "Horizontal" -> [kind |-> "circle", index |-> 0, count |-> 1]

\* C24: for grid_size = 1 nothing is divided by grid_size - 1 = 0, and the sole cell
\* (0, 0) gets the direction of UV = 0, in each of the three modes.
C24_SoleCellIsUVZero ==
    GridFilled /\ calc.grid_size = 1 =>
        /\ calc.subviews[1].x = 0 /\ calc.subviews[1].y = 0
        /\ calc.subviews[1].normal = DirectionAtUVZero(calc.grid_mode)

\* what holds: the Horizontal mode does not divide by grid_size - 1, and in every
\* larger grid the cell (0, 0) gets the direction of UV = 0
SoleCellHorizontal ==
    GridFilled /\ calc.grid_size = 1 /\ calc.grid_mode = "Horizontal" =>
        calc.subviews[1].normal = DirectionAtUVZero("Horizontal")
SoleCellIsNaN ==
    GridFilled /\ calc.grid_size = 1 /\ calc.grid_mode # "Horizontal" =>
        calc.subviews[1].normal = NaNVector
FirstCellIsUVZero ==
    calc.op = "grid" /\ calc.grid_size > 1 /\ calc.subviews # <<>> =>
        calc.subviews[1].normal =
            IF calc.grid_mode = "Horizontal"
            THEN [kind |-> "circle", index |-> 0, count |-> calc.grid_size * calc.grid_size]
            ELSE DirectionAtUVZero(calc.grid_mode)

\* ---- C25
\* the vectors of the grid, one per cell
Normals == { calc.subviews[i].normal : i \in 1..Len(calc.subviews) }

SphericalFilled(grids) ==
    GridFilled /\ calc.grid_mode = "Spherical" /\ calc.grid_size \in grids

BothHemispheres == (\E n \in Normals : n.y > 0) /\ (\E n \in Normals : n.y < 0)

\* C25: in the Spherical mode, for every grid_size >= 2, the directions of the full grid
\* include one with y > 0 and one with y < 0.
C25_BothHemispheres == SphericalFilled(2..MaxOctGrid) => BothHemispheres

\* what holds: from grid_size 3 on both hemispheres are covered; with grid_size 2 every
\* cell is a corner of the UV square, and all four fold to the direction (0, -1, 0)
BothHemispheresFromThree == SphericalFilled(3..MaxOctGrid) => BothHemispheres
TwoByTwoPointsDown ==
    SphericalFilled({2}) => Normals = {[kind |-> "octahedral", x |-> 0, y |-> -Unit, z |-> 0]}

\* ---- C26
Hemispherical == calc.op = "grid" /\ calc.grid_mode = "Hemispherical" /\ calc.grid_size >= 2

\* 2^-22 in units of 2^-27: five roundings of at most 2^-25 each separate the computed
\* y from the exact one
HemisphereEpsilon == 32

\* C26 as stated: in the Hemispherical mode, for every grid_size >= 2 and every cell, the
\* y component before normalization, 1 - |u - v| - |u + v - 1|, is not negative.
C26_AsStated == Hemispherical => \A n \in Normals : n.y >= 0

\* C26, amended: the y component before normalization is at least -2^-22 and at most 1;
\* it is not negative for grid_size up to 5.
C26_NotBelowEquator ==
    Hemispherical =>
        /\ \A n \in Normals : -HemisphereEpsilon <= n.y /\ n.y <= Unit
        /\ calc.grid_size <= 5 => \A n \in Normals : n.y >= 0

\* a full Hemispherical grid with a cell above the equator and a cell whose computed y
\* is below zero
C26_Witness ==
    /\ GridFilled
    /\ Hemispherical
    /\ \E n \in Normals : n.y > 0
    /\ \E n \in Normals : n.y < 0

\* ---- C27
\* |x| + |y| + |z| of an octahedral vector, in units of 2^-27
TaxicabLength(n) == Abs(n.x) + Abs(n.y) + Abs(n.z)

\* normalize() returns a unit vector exactly for a finite vector that is not zero; a
\* point (sin a, 0, cos a) of the circle is one
Normalizable(n) ==
    CASE n.kind = "nan" -> FALSE
      [] n.kind = "circle" -> TRUE
      [] n.kind = "octahedral" -> TaxicabLength(n) > 0

\* C27: for grid_size 1, 2, 8 and 16, every mode and every cell, the vector that
\* normal_from_grid normalizes is finite and not zero, so the direction has unit length;
\* in the Spherical and Hemispherical modes its |x| + |y| + |z| is 1.
C27_UnitLength ==
    calc.op = "grid" /\ calc.grid_size \in {1, 2, 8, 16} =>
        \A n \in Normals :
            /\ Normalizable(n)
            /\ n.kind = "octahedral" => TaxicabLength(n) = Unit

\* what holds: for every grid_size from 2 on the vector is finite, not zero, and its
\* |x| + |y| + |z| is within 2^-24 of 1 (exactly 1 in the Spherical mode)
UnitLengthFromTwo ==
    calc.op = "grid" /\ calc.grid_size >= 2 =>
        \A n \in Normals :
            /\ Normalizable(n)
            /\ n.kind = "octahedral" =>
                 /\ Unit - 8 <= TaxicabLength(n) /\ TaxicabLength(n) <= Unit + 8
                 /\ calc.grid_mode = "Spherical" /\ calc.grid_size \in {2, 8, 16}
                      => TaxicabLength(n) = Unit

\* ---- C28
Built == calc.op = "new" /\ calc.pc # "input"
LoadedOk == LoadedContainer /\ calc.loaded.outcome = "ok"

\* the option bit is set in the word exactly when the option is on
BitIff(flags, flag, option) == (BitAnd(flags, flag) # 0) <=> option

\* the word holds the mode in its two low bits, each option in its own bit, and
\* nothing else
FlagsWordOf(flags, mode, billboard, multisample, source_uv_y, indexed) ==
    /\ BitAnd(flags, GRID_MASK) = as_flags(mode)
    /\ from_flags(flags) = mode
    /\ BitIff(flags, VERTEX_BILLBOARD_FLAG, billboard)
    /\ BitIff(flags, RENDER_MULTISAMPLE_FLAG, multisample)
    /\ BitIff(flags, USE_SOURCE_UV_Y_FLAG, source_uv_y)
    /\ BitIff(flags, INDEXED_FLAG, indexed)
    /\ flags < 2 * INDEXED_FLAG

\* C28: from_flags(as_flags(m)) = m for every mode m; the flags word built by
\* ImposterData::new and by the loader has the mode in flags & GRID_MASK and each option
\* bit set exactly when its option is on, for every combination of the options; the mode
\* match is never reached with the mask value 3.
C28_FlagsRoundTrip ==
    /\ \A m \in GridMode : from_flags(as_flags(m)) = m
    /\ Built =>
         FlagsWordOf(calc.data.flags, calc.mode, calc.billboard_vertices, calc.multisample,
                     calc.use_mesh_uv_y, calc.indexed)
    /\ LoadedOk =>
         FlagsWordOf(calc.loaded.flags, ModeOfName(RecordOf(calc.files)[3]),
                     calc.load_settings.vertex_mode = "Billboard",
                     calc.load_settings.multisample, calc.load_settings.use_source_uv_y,
                     "pixels.png" \in DOMAIN calc.files)
    /\ calc.op \in {"new", "load"} /\ calc.pc = "specialized" =>
         /\ calc.specialized.outcome = "ok"
         /\ BitAnd(IF calc.op = "new" THEN calc.data.flags ELSE calc.loaded.flags,
                   GRID_MASK) # 3

\* an indexed Horizontal container loaded without billboard and with both other
\* options on, and specialized
C28_Witness ==
    /\ LoadedOk
    /\ calc.pc = "specialized"
    /\ calc.load_settings = [vertex_mode |-> "NoBillboard", multisample |-> TRUE,
                             use_source_uv_y |-> TRUE]
    /\ calc.loaded.flags = 2 + 8 + 16 + 32
    /\ calc.specialized.shader_defs =
         {"MATERIAL_MULTISAMPLE", "USE_SOURCE_UV_Y", "INDEXED_PIXELS", "GRID_HORIZONTAL"}

\* the word of ImposterData::new with every option on
AllOptionsBuilt ==
    Built /\ calc.billboard_vertices /\ calc.multisample /\ calc.use_mesh_uv_y
          /\ calc.indexed /\ calc.mode = "Hemispherical" => calc.data.flags = 61

\* ------------------------------------------------------------------ C29
\* a step of a session that stops after one snapshot and resolves through the
\* intermediate texture (multisample > 1)
ResolveFrame ==
    /\ last.op \in {"run", "skip"}
    /\ ~camera[last.cam].continuous
    /\ camera[last.cam].multisample # 1

\* the readiness check of the frame, if made, passed
PassedCheck == last.checked => last.actual = last.expected

\* C29 as stated: a non-continuous session with multisample > 1 whose readiness check
\* passes renders exactly min(max_tiles_per_frame, tiles remaining) tiles in each
\* frame in which it is extracted.
C29_AsStated ==
    ResolveFrame /\ PassedCheck
    => last.rendered - last.start
         = Min(camera[last.cam].max_tiles_per_frame, Tiles(last.cam) - last.start)

\* C29: in each frame in which the command task of a non-continuous session with
\* multisample > 1 runs and its readiness check passes, the task renders exactly
\* min(max_tiles_per_frame, tiles remaining) tiles; with max_tiles_per_frame >= 1
\* every such task starts at a multiple of max_tiles_per_frame, and the task that
\* fills the grid is the ceil(grid_size * grid_size / max_tiles_per_frame)-th of them.
C29_TilesEachFrame ==
    ResolveFrame /\ last.op = "run" /\ PassedCheck
    => LET maxTiles == camera[last.cam].max_tiles_per_frame
           n == Tiles(last.cam)
       IN  /\ last.rendered - last.start = Min(maxTiles, n - last.start)
           /\ maxTiles >= 1
              => /\ last.start % maxTiles = 0
                 /\ completed[last.cam]
                    <=> (last.start \div maxTiles) + 1 = CeilDiv(n, maxTiles)
           /\ maxTiles = 0 => ~completed[last.cam]

\* the second of two command tasks fills a grid of four tiles, two tiles per frame
C29_Witness ==
    /\ ResolveFrame
    /\ last.op = "run"
    /\ camera[last.cam].grid_size = 2
    /\ camera[last.cam].max_tiles_per_frame = 2
    /\ last.start = 2
    /\ last.rendered = 4
    /\ completed[last.cam]

\* ------------------------------------------------------------------ C30
\* the command task of camera c has just run
TaskRan(c) == c \notin ran /\ c \in ran' /\ last'.op = "run" /\ last'.cam = c

\* the tiles the task counted as rendered
Counted == last.start..(last.rendered - 1)

Extracted == renderPc = "done" /\ renderPc' = "graph"

\* C32: the count PartBaked stores for a session is always below
\* grid_size * grid_size; it never decreases while it stays stored; it is removed by
\* the command task that fills the grid and by an extraction that does not extract
\* the session; and a command task that finds no count starts at tile 0.
C32_PartBaked ==
    /\ [](\A c \in DOMAIN part_baked : part_baked[c] < Tiles(c))
    /\ [][\A c \in Cams :
            /\ Has(part_baked, c) /\ Has(part_baked', c) => part_baked'[c] >= part_baked[c]
            /\ TaskRan(c) /\ completed'[c] => ~Has(part_baked', c)
            /\ TaskRan(c) /\ ~completed'[c]
               => Has(part_baked', c) /\ part_baked'[c] = last'.rendered
            /\ Extracted /\ ~Has(extracted', c) => ~Has(part_baked', c)
            /\ TaskRan(c) /\ ~Has(part_baked, c) => last'.start = 0
            /\ TaskRan(c) /\ Has(part_baked, c) => last'.start = part_baked[c]]_vars

\* a command task continues a fill from a stored count and stores a larger one
C32_Witness ==
    /\ last.op = "run"
    /\ last.start > 0
    /\ last.rendered > last.start
    /\ Has(part_baked, last.cam)
    /\ part_baked[last.cam] = last.rendered

\* a session that was part-way through a fill is gone and its count with it
C32_RemovedWitness ==
    /\ despawned > 0
    /\ \E c \in Cams : c \notin alive /\ atlas[c] # {} /\ ~completed[c]
                       /\ renderPc = "graph" /\ ~Has(part_baked, c)

\* ------------------------------------------------------------------ C35
\* the indexed block of write_asset has laid out a palette
LaidOut == calc.op = "layout" /\ calc.pc # "input"

\* C35 as stated: two-byte indices are used exactly when every index value is at
\* most 65535, and the largest index is stored whole.
C35_AsStated ==
    LaidOut => /\ calc.written.use_u16 <=> calc.count - 1 <= 65535
               /\ calc.last_index = calc.count - 1

\* C35: two-byte indices are used exactly when the palette image, padded to
\* pixels_x * pixels_y places, has fewer than 65536 places; every index value is then
\* at most 65534; four-byte indices are used otherwise, also for the palettes of
\* 65281 to 65536 values whose indices would fit in two bytes; and the largest index
\* is stored whole in either width.
C35_IndexWidth ==
    LaidOut => /\ calc.written.use_u16
                  <=> calc.written.pixels_x * calc.written.pixels_y < 65536
               /\ calc.written.use_u16 => calc.count - 1 <= 65534
               /\ calc.count \in 65281..65536 => ~calc.written.use_u16
               /\ calc.count <= 65280 => calc.written.use_u16
               /\ calc.last_index = calc.count - 1

\* the largest palette written with two-byte indices
C35_Witness ==
    /\ LaidOut
    /\ calc.count = 65280
    /\ calc.written.use_u16
    /\ calc.last_index = 65279

\* a palette whose indices fit in two bytes is written with four
C35_FourBytesWitness ==
    /\ LaidOut
    /\ calc.count = 65281
    /\ ~calc.written.use_u16
    /\ calc.last_index = 65280

\* ------------------------------------------------------------------ C36
\* C36: the palette dimensions, the index width and the index row width the loader
\* derives from the stored palette and the settings equal the ones the writer used.
C36_LoaderDerivesWriterLayout ==
    calc.op = "layout" /\ calc.pc = "loaded" => calc.loaded = calc.written

\* the layouts agree for every palette the f32 arithmetic holds exactly
LayoutsAgreeBelowF32Exact ==
    calc.op = "layout" /\ calc.pc = "loaded" /\ calc.count <= F32Exact + 1
    => calc.loaded = calc.written

\* the palette image the writer lays out has a place for every value, below 2^24
PaletteHoldsEveryValue ==
    LaidOut /\ calc.count <= F32Exact
    => calc.written.pixels_x * calc.written.pixels_y >= calc.count

\* ------------------------------------------------------------------ C37
\* a Finished is waiting on the session's channel
FinishedQueued(c) == GotFinished(channel[c].queue)

\* C37: for every non-continuous session, each RunningCallback sent on its
\* completion channel is eventually followed by a Finished on the same channel, also
\* when two cameras hold clones of one callback handle.
C37_FinishedFollows ==
    \A c \in Cams :
        (/\ ~camera[c].continuous
         /\ last.op = "send" /\ last.cam = c /\ last.sent = "RunningCallback")
        ~> FinishedQueued(c)

\* The same, for the sessions whose callback handle no other live camera holds.
C37_FinishedFollowsUnshared ==
    \A c \in Cams :
        (/\ ~camera[c].continuous
         /\ last.op = "send" /\ last.cam = c /\ last.sent = "RunningCallback"
         /\ \A d \in alive \ {c} : camera[d].callback # camera[c].callback)
        ~> FinishedQueued(c)

\* ------------------------------------------- visibility and expected counts
\* the largest expected count a frame starts with
MaxExpected == 3

\* the scene's entities and the material types registered with ImposterMaterialPlugin
VisEntities == {"e1", "e2"}
Materials == {"M1", "M2"}

\* what an entity carries: no mesh, a mesh alone, or a mesh and a registered material
EntityKinds == {"none", "mesh"} \cup Materials

\* the state the two systems read and write: per camera the component fields, per
\* entity whether it passes the hidden / layer / sphere tests of a camera (near)
VisCalls ==
    [op : {"visibility"}, pc : {"update"}, passes : {0},
     order : {<<1, 2>>, <<2, 1>>},
     continuous : [Cams -> BOOLEAN],
     state : [Cams -> {"Rendering", "Finished"}],
     kind : [VisEntities -> EntityKinds],
     near : [VisEntities -> SUBSET Cams],
     visible_entities : {[c \in Cams |-> {}]},
     expected_count : {[c \in Cams |-> 0]},
     counted : {{}}]

RECURSIVE VisibilityLoop(_, _)
\* the loop of check_imposter_visibility over the view query in iteration order:
\* clear the set; `return` at a finished non-continuous camera; else collect the
\* entities that pass and set the expected count to 0
VisibilityLoop(order, v) ==
    IF order = <<>> THEN v
    ELSE LET c == Head(order)
             cleared == [v EXCEPT !.visible_entities[c] = {}]
         IN  IF ~v.continuous[c] /\ v.state[c] = "Finished"
             THEN cleared
             ELSE VisibilityLoop(Tail(order),
                    [cleared EXCEPT
                        !.visible_entities[c] =
                            {e \in VisEntities : v.kind[e] # "none" /\ c \in v.near[e]},
                        !.expected_count[c] = 0])

VisInit == NoSession /\ calc \in VisCalls

\* VisibilitySystems::CheckVisibility of one frame
check_imposter_visibility ==
    /\ calc.op = "visibility" /\ calc.pc = "update"
    /\ \A c \in Cams : calc.expected_count[c] <= MaxExpected
    /\ calc' = [VisibilityLoop(calc.order, calc) EXCEPT !.pc = "counting", !.counted = {}]
    /\ UNCHANGED bakeVars

\* count_expected_imposter_materials::<M>, once a frame for each registered M, after
\* check_imposter_visibility
count_expected_imposter_materials(M) ==
    /\ calc.op = "visibility" /\ calc.pc = "counting"
    /\ M \notin calc.counted
    /\ calc' = [calc EXCEPT
            !.expected_count = [c \in Cams |->
                calc.expected_count[c]
                + Cardinality({e \in calc.visible_entities[c] : calc.kind[e] = M})],
            !.counted = @ \cup {M},
            !.pc = IF calc.counted \cup {M} = Materials THEN "update" ELSE "counting",
            !.passes = IF calc.counted \cup {M} = Materials THEN 1 ELSE @]
    /\ UNCHANGED bakeVars

\* between two passes check_finished_cameras writes Finished to a non-continuous camera
camera_finishes(c) ==
    /\ calc.op = "visibility" /\ calc.pc = "update"
    /\ ~calc.continuous[c] /\ calc.state[c] = "Rendering"
    /\ calc' = [calc EXCEPT !.state[c] = "Finished"]
    /\ UNCHANGED bakeVars

\* between two passes the host moves an entity into or out of a camera's sphere
entity_moves(e, c) ==
    /\ calc.op = "visibility" /\ calc.pc = "update"
    /\ calc' = [calc EXCEPT !.near[e] = IF c \in @ THEN @ \ {c} ELSE @ \cup {c}]
    /\ UNCHANGED bakeVars

VisNext ==
    \/ check_imposter_visibility
    \/ \E M \in Materials : count_expected_imposter_materials(M)
    \/ \E c \in Cams : camera_finishes(c)
    \/ \E e \in VisEntities, c \in Cams : entity_moves(e, c)

VisSpec == VisInit /\ [][VisNext]_vars

\* ------------------------------------------------------------------ C34
\* the entities of a camera's visible set that carry a registered material and a mesh
BakedVisible(c) == {e \in calc.visible_entities[c] : calc.kind[e] \in Materials}

\* a frame's visibility and counting pass has just ended
PassOver == calc.op = "visibility" /\ calc.pc = "update" /\ calc.passes = 1

\* C34: after every frame's visibility and counting pass, the expected count of each
\* bake camera that is still rendering equals the number of entities of its visible
\* set that carry a registered bake material and a mesh, whatever the other bake
\* cameras and their states.
C34_ExpectedCount ==
    PassOver =>
        \A c \in Cams :
            calc.state[c] = "Rendering"
            => calc.expected_count[c] = Cardinality(BakedVisible(c))

\* The count is right for the cameras the loop reaches: those that no finished
\* non-continuous camera precedes in the iteration order.
C34_ExpectedCountWhenReached ==
    PassOver =>
        \A i \in 1..Len(calc.order) :
            (/\ calc.state[calc.order[i]] = "Rendering"
             /\ \A j \in 1..(i - 1) :
                    calc.continuous[calc.order[j]] \/ calc.state[calc.order[j]] # "Finished")
            => calc.expected_count[calc.order[i]] = Cardinality(BakedVisible(calc.order[i]))

\* ------------------------------------------- command tasks and their locks
\* the mutexes: ImposterActualRenderCount.1, PartBaked.0, ImposterActualRenderCount.0
Locks == {"actual.1", "part_baked.0", "actual.0"}

\* the command task of a session queued by its node in this frame: the grid has
\* `tiles` tiles of which `start` are in PartBaked, every tile issues `items` draws
TaskInputs ==
    {t \in [pc : {"spawned"}, tiles : 1..2, start : 0..1, items : 0..MaxDraws,
            drawn : {0}, tile0 : {0}, actual : {-1}, rendered : {0}] :
        t.start < t.tiles}

\* two sessions rendering in one frame. The first may be a continuous one whose
\* callback was installed again after a completion, with up to Capacity detached
\* readback tasks outstanding; the second has none.
LockCalls ==
    {k \in [op : {"locks"}, t : [Cams -> TaskInputs], pending : [Cams -> 0..Capacity],
            parallel_lock : {0}, part_baked_lock : {0}, count : {0},
            queue : {[c \in Cams |-> 0]}, mainDone : {FALSE}, acquired : {{}}] :
        k.pending[2] = 0}

LockInit == NoSession /\ calc \in LockCalls

\* the locks the task of session c holds at its position
Held(c) ==
    (IF calc.parallel_lock = c THEN {"actual.1"} ELSE {})
    \cup (IF calc.part_baked_lock = c THEN {"part_baked.0"} ELSE {})

\* taking `lock` while holding `held`, recorded for the order of acquisition
Acquire(held, lock) == calc.acquired \cup {<<h, lock>> : h \in held}

\* variant: the task does not wait for the render-window lock
parallel_lock_free_always(c) == TRUE

\* actual.1.lock() returns
parallel_lock_free(c) == calc.parallel_lock = 0

\* let _parallel_lock = actual.1.lock().unwrap();
lock_parallel(c) ==
    /\ calc.op = "locks" /\ calc.t[c].pc = "spawned"
    /\ parallel_lock_free(c)
    /\ calc' = [calc EXCEPT !.parallel_lock = c, !.t[c].pc = "window",
                            !.acquired = Acquire(Held(c), "actual.1")]
    /\ UNCHANGED bakeVars

\* let mut part_baked = part_baked.0.lock().unwrap();
lock_part_baked(c) ==
    /\ calc.op = "locks" /\ calc.t[c].pc = "window"
    /\ calc.part_baked_lock = 0
    /\ calc' = [calc EXCEPT !.part_baked_lock = c, !.t[c].pc = "reset",
                            !.acquired = Acquire(Held(c), "part_baked.0")]
    /\ UNCHANGED bakeVars

\* *actual.0.lock().unwrap() = 0; rendered = part_baked.get(&view) or 0
reset_actual(c) ==
    /\ calc.op = "locks" /\ calc.t[c].pc = "reset"
    /\ calc' = [calc EXCEPT !.count = 0,
                            !.t[c].rendered = calc.t[c].start,
                            !.t[c].pc = IF calc.t[c].start = 0 THEN "tile0" ELSE "tiles",
                            !.acquired = Acquire(Held(c), "actual.0")]
    /\ UNCHANGED bakeVars

\* CountRenderCommand::render for one item of the tile the task is drawing
CountRenderCommand_render(c) ==
    /\ calc.op = "locks" /\ calc.t[c].pc \in {"tile0", "tiles"}
    /\ calc.t[c].drawn < calc.t[c].items
    /\ calc' = [calc EXCEPT !.count = @ + 1,
                            !.t[c].drawn = @ + 1,
                            !.t[c].tile0 = IF calc.t[c].pc = "tile0" THEN @ + 1 ELSE @,
                            !.acquired = Acquire(Held(c), "actual.0")]
    /\ UNCHANGED bakeVars

\* let actual = *actual.0.lock().unwrap(); and the comparison with the camera's
\* expected_count under its wait_for_render
read_actual(c) ==
    /\ calc.op = "locks" /\ calc.t[c].pc = "tile0"
    /\ calc.t[c].drawn = calc.t[c].items
    /\ \E expected_count \in 0..MaxDraws, wait_for_render \in BOOLEAN :
         LET ready == calc.count = expected_count \/ ~wait_for_render
             rendered == IF ready THEN 1 ELSE 0
         IN calc' = [calc EXCEPT
                !.t[c].actual = calc.count,
                !.t[c].rendered = rendered,
                !.t[c].drawn = 0,
                !.t[c].pc = IF ready /\ rendered < calc.t[c].tiles THEN "tiles" ELSE "store",
                !.acquired = Acquire(Held(c), "actual.0")]
    /\ UNCHANGED bakeVars

\* the remaining tile of the frame has issued its draws
tile_drawn(c) ==
    /\ calc.op = "locks" /\ calc.t[c].pc = "tiles"
    /\ calc.t[c].drawn = calc.t[c].items
    /\ calc' = [calc EXCEPT !.t[c].rendered = @ + 1, !.t[c].drawn = 0,
                            !.t[c].pc = "store"]
    /\ UNCHANGED bakeVars

\* part_baked.insert(view, rendered), and remove when the grid is full
store_part_baked(c) ==
    /\ calc.op = "locks" /\ calc.t[c].pc = "store"
    /\ calc' = [calc EXCEPT !.t[c].pc = IF calc.t[c].rendered = calc.t[c].tiles
                                         THEN "send" ELSE "unlock"]
    /\ UNCHANGED bakeVars

\* camera.channel.send(state) on the bounded channel: returns once there is room
channel_send(c) ==
    /\ calc.op = "locks" /\ calc.t[c].pc = "send"
    /\ calc.queue[c] < Capacity
    /\ calc' = [calc EXCEPT !.queue[c] = @ + 1, !.t[c].pc = "unlock"]
    /\ UNCHANGED bakeVars

\* the closure ends: the guards are dropped
unlock(c) ==
    /\ calc.op = "locks" /\ calc.t[c].pc = "unlock"
    /\ calc' = [calc EXCEPT !.part_baked_lock = 0, !.parallel_lock = 0,
                            !.t[c].pc = "done"]
    /\ UNCHANGED bakeVars

\* a detached readback task ends with success_channel.send(Finished)
detached_finish(c) ==
    /\ calc.op = "locks" /\ calc.pending[c] > 0
    /\ calc.queue[c] < Capacity
    /\ calc' = [calc EXCEPT !.queue[c] = @ + 1, !.pending[c] = @ - 1]
    /\ UNCHANGED bakeVars

\* check_finished_cameras of the main world's update: every channel is drained
drain_channels ==
    /\ calc.op = "locks" /\ ~calc.mainDone
    /\ calc' = [calc EXCEPT !.queue = [c \in Cams |-> 0], !.mainDone = TRUE]
    /\ UNCHANGED bakeVars

\* the render graph has ended and the main world has updated: the next frame's
\* extract_imposter_cameras takes the PartBaked lock for its retain
extract_locks ==
    /\ calc.op = "locks" /\ calc.mainDone
    /\ \A c \in Cams : calc.t[c].pc \in {"done", "idle"}
    /\ calc.part_baked_lock = 0
    /\ calc' = [calc EXCEPT
            !.mainDone = FALSE,
            !.acquired = Acquire({}, "part_baked.0"),
            !.t = [c \in Cams |-> [calc.t[c] EXCEPT !.pc = "idle"]]]
    /\ UNCHANGED bakeVars

LockNext ==
    \/ \E c \in Cams : lock_parallel(c)
    \/ \E c \in Cams : lock_part_baked(c)
    \/ \E c \in Cams : reset_actual(c)
    \/ \E c \in Cams : CountRenderCommand_render(c)
    \/ \E c \in Cams : read_actual(c)
    \/ \E c \in Cams : tile_drawn(c)
    \/ \E c \in Cams : store_part_baked(c)
    \/ \E c \in Cams : channel_send(c)
    \/ \E c \in Cams : unlock(c)
    \/ \E c \in Cams : detached_finish(c)
    \/ drain_channels
    \/ extract_locks

LockSpec == LockInit /\ [][LockNext]_vars

\* ------------------------------------------------------------------ C33
\* the task of session c is between taking the render-window lock and its end
InTask(c) == calc.t[c].pc \in {"window", "reset", "tile0", "tiles", "store", "send", "unlock"}

\* C33: the command tasks of the sessions of a frame exclude each other, and the
\* actual count a session compares with its expected count is the number of draws
\* issued for its own tile 0 in this frame, whatever the other session's task did.
C33_OwnDraws ==
    calc.op = "locks" =>
        /\ \A c \in Cams, d \in Cams : InTask(c) /\ InTask(d) => c = d
        /\ \A c \in Cams :
              calc.t[c].actual # -1
              => /\ calc.t[c].actual = calc.t[c].tile0
                 /\ calc.t[c].actual = calc.t[c].items

\* Both sessions have compared their counts in one frame, each with draws of its own.
C33_Witness ==
    /\ calc.op = "locks"
    /\ \A c \in Cams : calc.t[c].actual = calc.t[c].items /\ calc.t[c].items > 0
    /\ \E c \in Cams : calc.t[c].pc = "done"
    /\ \E c \in Cams : calc.t[c].pc \in {"store", "tiles"}

\* ------------------------------------------------------------------ C39
\* the order in which the code takes the mutexes when it takes more than one
LockRank(lock) == CASE lock = "actual.1" -> 1 [] lock = "part_baked.0" -> 2 [] lock = "actual.0" -> 3

\* Every acquisition by a command task, by CountRenderCommand and by the extraction
\* takes a lock that comes later in one order than each lock already held.
C39_LockOrder ==
    calc.op = "locks" =>
        \A p \in calc.acquired : LockRank(p[1]) < LockRank(p[2])

\* a command task waits at its channel send, holding the render-window lock and the
\* PartBaked lock, with the channel full
BlockedAtSend(c) ==
    /\ calc.t[c].pc = "send"
    /\ calc.queue[c] = Capacity
    /\ Held(c) = {"actual.1", "part_baked.0"}

\* C39: the three mutexes are taken in one consistent order and no task waits on the
\* completion channel in a way that stops the frame, so that in every state reached
\* by interleaving the sessions' tasks some party can take a step.
C39_NoDeadlock ==
    calc.op = "locks" =>
        /\ \A p \in calc.acquired : LockRank(p[1]) < LockRank(p[2])
        /\ ENABLED LockNext

\* Short of a task blocked at its send on a full channel, some party can always take
\* a step.
C39_NoDeadlockButAtSend ==
    (calc.op = "locks" /\ \A c \in Cams : ~BlockedAtSend(c)) => ENABLED LockNext

\* ------------------------------------------------------- snap_gltfs queue
\* the ImpostGltf requests the host sends
MaxRequests == 3
Requests == 1..MaxRequests

\* Local<Option<(ImpostGltf, ImposterState)>>::None
NoProgress == [ev |-> 0, state |-> "None", ready |-> FALSE, render_frame |-> 0, handles |-> 0]

\* odd and even requests have a grid_size each; none has been sent yet
SnapCalls ==
    [op : {"snap"},
     grid_size : {[r \in Requests |-> IF r % 2 = 1 THEN g[1] ELSE g[2]] :
                    g \in (1..MaxGrid) \X (1..MaxGrid)},
     unsent : {Requests}, events : {<<>>}, received : {<<>>},
     pending : {<<>>}, in_progress : {NoProgress},
     started : {<<>>}, visited : {{}}, results : {<<>>}]

SnapInit == NoSession /\ calc \in SnapCalls

\* the host sends an ImpostGltf event
send_ImpostGltf(r) ==
    /\ calc.op = "snap" /\ r \in calc.unsent
    /\ calc' = [calc EXCEPT !.unsent = @ \ {r}, !.events = Append(@, r),
                            !.received = Append(@, r)]
    /\ UNCHANGED bakeVars

\* variant: the most recent request is started first
pop_back(q) == [ev |-> q[Len(q)], rest |-> SubSeq(q, 1, Len(q) - 1)]

\* pending.pop_front() of a non-empty queue
pop_front(q) == [ev |-> Head(q), rest |-> Tail(q)]

\* commands.fire_event(ImpostGltfResult(ev, result))
FireResult(k, ev, result) ==
    [k EXCEPT !.results = Append(@, [ev |-> ev, result |-> result]),
              !.in_progress = NoProgress]

\* the first part of the system: read the events, and with nothing in progress start
\* the front request. `gltf` is what gltfs.get and default_scene give for it.
\* Returns the new state and whether the system has returned.
StartNext(k, gltf) ==
    LET queued == [k EXCEPT !.pending = @ \o k.events, !.events = <<>>] IN
    IF queued.in_progress = NoProgress /\ queued.pending # <<>>
    THEN LET front == pop_front(queued.pending)
             popped == [queued EXCEPT !.pending = front.rest]
         IN  IF gltf # "Ok"
             THEN [k |-> FireResult(popped, front.ev, gltf), returned |-> TRUE]
             ELSE [k |-> [popped EXCEPT
                            !.in_progress = [NoProgress EXCEPT !.ev = front.ev,
                                                               !.state = "LoadingScene"],
                            !.started = Append(@, front.ev),
                            !.visited = {}],
                   returned |-> FALSE]
    ELSE [k |-> queued, returned |-> FALSE]

\* the second part: one step of the request in progress. The arguments are what the
\* world shows in this call: the scene instance is ready, the entities have an
\* enclosing aabb, the number of texture handles still loading, the camera exists.
Advance(k, ready, aabb, loading, cam) ==
    LET p == k.in_progress
        ev == p.ev
        last_frame == k.grid_size[ev] * k.grid_size[ev] - 1
    IN  CASE p.state = "LoadingScene" /\ ~p.ready ->
                [k EXCEPT !.in_progress.ready = ready]
          [] p.state = "LoadingScene" /\ p.ready ->
                IF ~aabb THEN FireResult(k, ev, "Gltf aabb is zero")
                ELSE [k EXCEPT !.in_progress.state = "WaitingToRender",
                               !.in_progress.render_frame = -1,
                               !.in_progress.handles = loading]
          [] p.state = "WaitingToRender" ->
                IF Min(loading, p.handles) = 0
                THEN [k EXCEPT !.in_progress.state = "Rendering",
                               !.in_progress.render_frame = 0,
                               !.in_progress.handles = 0,
                               !.visited = {0}]
                ELSE [k EXCEPT !.in_progress.handles = Min(loading, p.handles)]
          [] p.state = "Rendering" ->
                IF p.render_frame = last_frame THEN FireResult(k, ev, "Ok")
                ELSE IF ~cam THEN FireResult(k, ev, "Camera lost")
                ELSE [k EXCEPT !.in_progress.render_frame = p.render_frame + 1,
                               !.visited = @ \cup {p.render_frame + 1}]
          [] OTHER -> k

\* what a run of the system can read from the world, given what it will ask for
Asked(what) ==
    LET starts == calc.in_progress = NoProgress /\ calc.pending \o calc.events # <<>>
        p == calc.in_progress
    IN  CASE what = "gltf" -> starts
          [] what = "ready" -> starts \/ (p.state = "LoadingScene" /\ ~p.ready)
          [] what = "aabb" -> p.state = "LoadingScene" /\ p.ready
          [] what = "loading" -> p.state \in {"LoadingScene", "WaitingToRender"} /\ ~starts
          [] what = "cam" -> p.state = "Rendering"

\* one run of the system in the Update schedule
snap_gltfs ==
    /\ calc.op = "snap"
    /\ \E gltf \in IF Asked("gltf") THEN {"Ok", "Gltf not found", "Gltf has no scene"}
                                     ELSE {"Ok"},
          ready \in IF Asked("ready") THEN BOOLEAN ELSE {FALSE},
          aabb \in IF Asked("aabb") THEN BOOLEAN ELSE {TRUE},
          loading \in IF Asked("loading") THEN 0..1 ELSE {0},
          cam \in IF Asked("cam") THEN BOOLEAN ELSE {TRUE} :
         LET s == StartNext(calc, gltf) IN
         calc' = IF s.returned THEN s.k ELSE Advance(s.k, ready, aabb, loading, cam)
    /\ UNCHANGED bakeVars

SnapNext ==
    \/ \E r \in Requests : send_ImpostGltf(r)
    \/ snap_gltfs

SnapSpec == SnapInit /\ [][SnapNext]_vars

\* ------------------------------------------------------------------ C38
\* the results fired for request r
ResultsOf(r) == {i \in 1..Len(calc.results) : calc.results[i].ev = r}

\* request r is still on its way: not read yet, queued, or in progress
Waiting(r) ==
    \/ \E i \in 1..Len(calc.events) : calc.events[i] = r
    \/ \E i \in 1..Len(calc.pending) : calc.pending[i] = r
    \/ calc.in_progress.ev = r

\* C38: at most one request is in progress; requests are started in the order they
\* were received; a request that is no longer waiting has exactly one result, a
\* waiting one has none; a success comes only after the render-frame counter has held
\* every tile index 0..grid_size*grid_size - 1.
C38_OneResultEach ==
    /\ [](calc.op = "snap" =>
        /\ Cardinality({i \in 1..Len(calc.started) : ResultsOf(calc.started[i]) = {}}) <= 1
        /\ \A i \in 1..Len(calc.started) :
              /\ ResultsOf(calc.started[i]) = {} <=> calc.in_progress.ev = calc.started[i]
              /\ \A j \in 1..Len(calc.received) :
                    calc.received[j] = calc.started[i]
                    => \A h \in 1..(j - 1) : ~Waiting(calc.received[h])
        /\ \A r \in Requests \ calc.unsent :
              Cardinality(ResultsOf(r)) = IF Waiting(r) THEN 0 ELSE 1)
    /\ [][calc.op = "snap" =>
            \A i \in 1..Len(calc'.results) :
                (i > Len(calc.results) /\ calc'.results[i].result = "Ok")
                => /\ calc.in_progress.ev = calc'.results[i].ev
                   /\ calc.visited = 0..(calc.grid_size[calc'.results[i].ev]
                                         * calc.grid_size[calc'.results[i].ev] - 1)]_vars

\* Every request was answered, the last one received with a success on a grid of more
\* than one tile, after a request that failed.
C38_Witness ==
    /\ calc.op = "snap"
    /\ Len(calc.results) = MaxRequests
    /\ calc.results[MaxRequests].result = "Ok"
    /\ calc.grid_size[calc.results[MaxRequests].ev] > 1
    /\ calc.results[MaxRequests].ev = calc.received[MaxRequests]
    /\ \E i \in 1..MaxRequests : calc.results[i].result = "Camera lost"
    /\ calc.received # <<1, 2, 3>>

\* --------------------------------------------- atlas textures of the sessions
\* Two sessions whose output textures have one descriptor (equal tile_size *
\* grid_size): prepare_imposter_textures asks the TextureCache for the output of
\* every extracted camera in each frame. A cached texture holds, per tile region,
\* 0 (cleared) or the session whose render it holds.
Regions(grid_size) == 0..(grid_size * grid_size - 1)

TextureCalls ==
    [op : {"textures"}, pc : {"prepare"}, grid_size : 1..MaxGrid,
     multisample : [Cams -> Multisamples],
     max_tiles_per_frame : [Cams -> 1..MaxTilesPerFrame],
     state : {[c \in Cams |-> "Unspawned"]},
     part_baked : {[c \in Cams |-> 0]},
     cache : {<<>>}, created : {0},
     output : {[c \in Cams |-> 0]}, drawn_to : {[c \in Cams |-> 0]},
     same_texture : {[c \in Cams |-> TRUE]},
     ran : {{}},
     step : {[cam |-> 0, start |-> 0, rendered |-> 0, cleared |-> FALSE, kept |-> FALSE,
              atlas |-> <<>>]}]

TextureInit == NoSession /\ calc \in TextureCalls

\* the index of the first cached texture that is not taken, or 0
FirstFree(cache) ==
    IF \E i \in 1..Len(cache) : ~cache[i].taken
    THEN CHOOSE i \in 1..Len(cache) :
            ~cache[i].taken /\ \A j \in 1..(i - 1) : cache[j].taken
    ELSE 0

\* TextureCache::get for the output descriptor: the first texture of that descriptor
\* that is not taken in this frame, else a new one
TextureCache_get(k, c) ==
    LET i == FirstFree(k.cache) IN
    IF i # 0
    THEN [k EXCEPT !.cache[i].taken = TRUE, !.cache[i].frames_since_last_use = 0,
                   !.output[c] = k.cache[i].id]
    ELSE [k EXCEPT !.cache = Append(@, [id |-> k.created + 1, taken |-> TRUE,
                                        frames_since_last_use |-> 0,
                                        content |-> [r \in Regions(k.grid_size) |-> 0]]),
                   !.created = @ + 1,
                   !.output[c] = k.created + 1]

RECURSIVE PrepareLoop(_, _)
\* the loop of prepare_imposter_textures over the extracted cameras
PrepareLoop(views, k) ==
    IF views = <<>> THEN k
    ELSE PrepareLoop(Tail(views),
                     IF k.state[Head(views)] = "Rendering"
                     THEN TextureCache_get(k, Head(views)) ELSE k)

\* the host spawns the bake camera of session c before a frame
spawn_camera(c) ==
    /\ calc.op = "textures" /\ calc.pc = "prepare"
    /\ calc.state[c] = "Unspawned"
    /\ calc' = [calc EXCEPT !.state[c] = "Rendering"]
    /\ UNCHANGED bakeVars

\* RenderSet::PrepareResources of a frame, for the cameras extracted in it
prepare_imposter_textures ==
    /\ calc.op = "textures" /\ calc.pc = "prepare"
    /\ calc' = [PrepareLoop(<<1, 2>>, calc) EXCEPT !.pc = "graph", !.ran = {}]
    /\ UNCHANGED bakeVars

\* the cached texture with this id
Cached(k, id) == CHOOSE i \in 1..Len(k.cache) : k.cache[i].id = id

\* The command task of session c on the output it was handed: the output is cleared
\* by the first get_attachment of the frame unless the task spent that call because
\* rendered > 0; with multisample > 1 the output is touched only by a blit, which a
\* failed readiness check with wait_for_render prevents.
ImposterBakeNode_render(c) ==
    /\ calc.op = "textures" /\ calc.pc = "graph"
    /\ calc.output[c] # 0 /\ c \notin calc.ran
    /\ \E ready \in BOOLEAN, wait_for_render \in BOOLEAN :
         LET tiles == calc.grid_size * calc.grid_size
             start == calc.part_baked[c]
             multi == calc.multisample[c] # 1
             passed == start > 0 \/ ready \/ (multi /\ ~wait_for_render)
                       \/ (~multi /\ ~wait_for_render)
             rendered ==
                 IF ~passed THEN start
                 ELSE IF multi
                      THEN Min(start + calc.max_tiles_per_frame[c], tiles)
                      ELSE Min((IF start = 0 THEN 1 ELSE start)
                               + calc.max_tiles_per_frame[c], tiles)
             cleared == start = 0 /\ (~multi \/ rendered > 0)
             i == Cached(calc, calc.output[c])
             before == calc.cache[i].content
             drawn == IF multi THEN start..(rendered - 1)
                      ELSE IF start = 0 THEN {0} \cup 1..(rendered - 1)
                      ELSE start..(rendered - 1)
             after == [r \in Regions(calc.grid_size) |->
                         IF r \in drawn THEN c
                         ELSE IF cleared THEN 0 ELSE before[r]]
             same == start = 0
                     \/ (calc.same_texture[c] /\ calc.drawn_to[c] = calc.output[c])
         IN calc' = [calc EXCEPT
                !.cache[i].content = after,
                !.part_baked[c] = IF rendered = tiles THEN 0 ELSE rendered,
                !.state[c] = IF rendered = tiles THEN "Finished" ELSE @,
                !.drawn_to[c] = calc.output[c],
                !.same_texture[c] = same,
                !.ran = @ \cup {c},
                !.step = [cam |-> c, start |-> start, rendered |-> rendered,
                          cleared |-> cleared,
                          kept |-> same,
                          atlas |-> after]]
    /\ UNCHANGED bakeVars

\* RenderSet::Cleanup: TextureCache::update frees every texture for the next frame
\* and drops those not used for three frames; the render world's entities are cleared
TextureCache_update ==
    /\ calc.op = "textures" /\ calc.pc = "graph"
    /\ \A c \in Cams : calc.output[c] # 0 => c \in calc.ran
    /\ LET aged == [i \in 1..Len(calc.cache) |->
                      [calc.cache[i] EXCEPT !.taken = FALSE,
                                            !.frames_since_last_use = @ + 1]]
       IN calc' = [calc EXCEPT
                !.cache = SelectSeq(aged, LAMBDA t : t.frames_since_last_use < 3),
                !.output = [c \in Cams |-> 0],
                !.pc = "prepare",
                !.step = [@ EXCEPT !.cam = 0]]
    /\ UNCHANGED bakeVars

TextureNext ==
    \/ \E c \in Cams : spawn_camera(c)
    \/ prepare_imposter_textures
    \/ \E c \in Cams : ImposterBakeNode_render(c)
    \/ TextureCache_update

TextureSpec == TextureInit /\ [][TextureNext]_vars

\* ------------------------------------------------------------------ C31
\* the command task of a session has just run
Rendered31 == calc.op = "textures" /\ calc.step.cam # 0

\* C31: the atlas of a session is cleared only in a frame the session starts with
\* zero tiles rendered; in a frame that starts with k > 0 tiles, the k tiles written
\* in earlier frames are in the atlas unchanged; at completion every tile region of
\* the atlas holds a render of the session's fill. For multisample = 1 and > 1.
C31_AtlasKept ==
    Rendered31 =>
        LET s == calc.step IN
        /\ s.cleared => s.start = 0
        /\ \A r \in 0..(s.start - 1) : s.atlas[r] = s.cam
        /\ calc.state[s.cam] = "Finished"
           => \A r \in Regions(calc.grid_size) : s.atlas[r] = s.cam

\* The same for the sessions that were handed one texture in every frame of their
\* fill, and for clearing in every frame.
C31_AtlasKeptOnSameTexture ==
    Rendered31 =>
        LET s == calc.step IN
        /\ s.cleared => s.start = 0
        /\ s.kept
           => /\ \A r \in 0..(s.start - 1) : s.atlas[r] = s.cam
              /\ calc.state[s.cam] = "Finished"
                 => \A r \in Regions(calc.grid_size) : s.atlas[r] = s.cam

====
